---- MODULE Spec2Model ----
(***************************************************************************)
(* State-machine model of wb_api_sdk: the request core of BaseAPIClient    *)
(* (concurrency gate, retry loop, status classification, streaming), the   *)
(* backoff delay of RetryConfig, and the report pagination of ReportsAPI   *)
(* in the statistic and statistics packages.                               *)
(***************************************************************************)
EXTENDS Integers, Sequences, FiniteSets, TLC

\* ------------------------------------------------------------- bounds
\* Number of logical calls made on one client instance.
NumCalls == 2
\* Largest max_concurrent a client is constructed with.
MaxSlots == 2
\* Largest RetryConfig.max_retries a client is constructed with.
MaxRetriesBound == 2
\* Largest number of rows one streamed response carries.
MaxRows == 1
\* Largest number of page requests one synchronous report stream issues.
MaxPages == 2
\* Largest number of page requests one pagination run issues while its
\* requests and rows are logged.
MaxPageRequests == 3
\* Largest number of rows the service hands out over one logged pagination run.
MaxReportRows == 3
\* Number of equally spaced values random.random() is drawn from.
JitterSteps == 4
\* Largest RetryConfig.base_delay, in seconds.
MaxBaseDelay == 2
\* Largest RetryConfig.max_delay, in seconds.
MaxMaxDelay == 3
\* Largest RetryConfig.exponential_base.
MaxExponentialBase == 2
\* Number of ping() calls made on one client instance.
NumPings == 2
\* Largest reading of time.monotonic(), in ticks.
MaxClock == 2
\* Largest PingCache ttl, in ticks.
MaxTtl == 2

Calls == 1..NumCalls

\* ---------------------------------------------------- values and inputs
\* Optional values (Python None / a value).
None == << >>
Some(x) == << x >>

\* RetryConfig.retry_on_statuses default.
DefaultRetryStatuses == {429, 500, 502, 503, 504}

\* The retry_on_statuses a client is configured with: the default, and the
\* default with 401 listed too.
RetrySets == {DefaultRetryStatuses, DefaultRetryStatuses \cup {401}}

\* Status codes the service answers with.
Statuses == {200, 204, 400, 401, 403, 429, 500, 503}

\* Retry-After header values: absent, empty, delta-seconds, an HTTP date.
NoHeader == "<absent>"
RetryAfterHeaders == {NoHeader, "", "5", "Wed, 21 Oct 2015 07:28:00 GMT"}

\* What one transport request ends in: a response (status, Retry-After
\* header) or an httpx exception.  "timeout" is httpx.TimeoutException,
\* "network" httpx.NetworkError, "protocol" any other httpx.TransportError.
StatusResponses ==
    { [type |-> "status", status |-> s, retry_after |-> h] :
        s \in Statuses \ {429}, h \in {NoHeader} }
    \cup { [type |-> "status", status |-> 429, retry_after |-> h] :
        h \in RetryAfterHeaders }
TransportFailures ==
    { [type |-> t, status |-> 0, retry_after |-> NoHeader] :
        t \in {"timeout", "network", "protocol"} }
Responses == StatusResponses \cup TransportFailures
NoResponse == [type |-> "none", status |-> 0, retry_after |-> NoHeader]

\* Kinds of call: the buffered executor, the two async streams, and the
\* synchronous report stream of the statistic package.
AsyncKinds == {"request", "stream_get", "stream_post"}
StreamKinds == {"stream_get", "stream_post"}
Kinds == AsyncKinds \cup {"sync_stream"}

VARIABLES
    max_concurrent,     \* BaseAPIClient.max_concurrent
    max_retries,        \* RetryConfig.max_retries
    retry_on_statuses,  \* RetryConfig.retry_on_statuses
    on_retry,           \* RetryConfig.on_retry is set (TRUE) or None (FALSE)
    sem_value,          \* asyncio.Semaphore._value of BaseAPIClient._semaphore
    sem_waiters,        \* asyncio.Semaphore._waiters, in arrival order
    kind,               \* per call: which operation it is
    pc,                 \* per call: where it is suspended
    attempt,            \* per call: loop variable of _request
    requests,           \* per call: transport requests issued so far
    observed,           \* per call: on_retry invocations so far
    emitted,            \* per call: rows yielded to the consumer so far
    last,               \* per call: the answer to its latest transport request
    result,             \* per call: what the call ended with
    traced,             \* the calls whose exchanges are recorded in full
    indices             \* per traced call: the attempt indices on_retry was given

\* RetryConfig as calculate_delay reads it, and the delays it computed.
VARIABLES
    base_delay,         \* RetryConfig.base_delay (seconds)
    max_delay,          \* RetryConfig.max_delay (seconds)
    exponential_base,   \* RetryConfig.exponential_base
    jitter,             \* RetryConfig.jitter
    delays              \* calculate_delay(0), calculate_delay(1), ... as computed

\* One run of ReportsAPI.get_report_detail_by_period or of the report stream.
VARIABLES
    package,            \* "statistic" or "statistics": which ReportsAPI
    mode,               \* "buffered" (get_report_detail_by_period) or "stream"
    fetch_all,          \* argument fetch_all
    rrdid,              \* argument rrdid (buffered only)
    transform,          \* argument transform: "none", or what the callback does
    logged,             \* whether the run's requests and rows are logged
    phase,              \* where the run is
    current_rrdid,      \* local current_rrdid
    last_rrdid,         \* local last_rrdid
    row_count,          \* local row_count: rows of the open page yielded so far
    page,               \* the answer to the latest page request
    page_requests,      \* log: the rrdid parameter of every page request issued
    received,           \* log: the rows the service sent, page after page
    delivered,          \* log: the rows handed to the caller (all_rows / yield)
    transport_log       \* log: page, rrdid and attempt of every transport
                        \* request made through _request for a page

\* The PingCache of a client, the clock it reads, and the ping() calls made.
VARIABLES
    now,                \* time.monotonic(), in ticks
    ttl,                \* PingCache._ttl, in ticks
    cache,              \* PingCache._cache: per key the (value, timestamp) kept
    latest,             \* per key: the latest set() not followed by clear()
    got,                \* the latest PingCache.get: what it returned, and what
                        \* the latest set() for its key was at that time
    ping_pc,            \* per ping: where it is
    ping_key,           \* per ping: its cache_key
    ping_result,        \* per ping: what it returned
    ping_sent,          \* per ping: _request calls it made
    ping_started,       \* per ping: the clock when it was called
    ping_seen,          \* per ping: the latest set() for its key when called
    ping_stored,        \* per ping: the clock when it stored its result
    ping_prior          \* per ping: the pings that were over when it was called

pinger == << now, ttl, cache, latest, got, ping_pc, ping_key, ping_result,
             ping_sent, ping_started, ping_seen, ping_stored, ping_prior >>

backoff == << base_delay, max_delay, exponential_base, jitter, delays >>

pager == << package, mode, fetch_all, rrdid, transform, logged, phase,
            current_rrdid, last_rrdid, row_count, page, page_requests,
            received, delivered, transport_log >>

vars == << max_concurrent, max_retries, retry_on_statuses, on_retry,
           sem_value, sem_waiters, kind, pc, attempt, requests, observed,
           emitted, last, result, traced, indices, backoff, pager, pinger >>

config == << max_concurrent, max_retries, retry_on_statuses, on_retry, traced >>

\* ------------------------------------------------------------- results
NoResult == [kind |-> "none", status_code |-> None, retry_after |-> None]
Outcome(k) == [kind |-> k, status_code |-> None, retry_after |-> None]
ResponseOf(resp) ==
    [kind |-> "response", status_code |-> Some(resp.status), retry_after |-> None]

\* ------------------------------------------------------ ErrorClassifier
\* float(retry_after) if retry_after else None: an absent or empty header is
\* falsy; float() of delta-seconds is the number; float() of anything else
\* raises ValueError.
IsFalsy(h) == h = NoHeader \/ h = ""
IsNumeric(h) == h \in {"5"}
FloatOf(h) == CASE h = "5" -> 5

\* _raise_for_status: NoResult when it returns, else the exception it raises.
RaiseForStatus(resp) ==
    IF 200 <= resp.status /\ resp.status < 300 THEN NoResult
    ELSE IF resp.status = 401 THEN
        [kind |-> "WBAuthError", status_code |-> Some(401), retry_after |-> None]
    ELSE IF resp.status = 429 THEN
        IF IsFalsy(resp.retry_after) THEN
            [kind |-> "WBRateLimitError", status_code |-> Some(429),
             retry_after |-> None]
        ELSE IF IsNumeric(resp.retry_after) THEN
            [kind |-> "WBRateLimitError", status_code |-> Some(429),
             retry_after |-> Some(FloatOf(resp.retry_after))]
        ELSE Outcome("ValueError")
    ELSE [kind |-> "WBAPIError", status_code |-> Some(resp.status),
          retry_after |-> None]

\* --------------------------------------------------------- RetryPolicy
\* AttemptsRemain as it would be with the bound off by one.
AttemptsRemain_OffByOne(att) == att <= max_retries

\* attempt < self.retry_config.max_retries
AttemptsRemain(att) == att < max_retries

\* IsRetryable as it would be if every error status were retried.
IsRetryable_AnyError(status) == status >= 400

\* response.status_code in self.retry_config.retry_on_statuses
IsRetryable(status) == status \in retry_on_statuses

\* ------------------------------------------- RetryConfig.calculate_delay
RECURSIVE Pow(_, _)
Pow(b, n) == IF n = 0 THEN 1 ELSE b * Pow(b, n - 1)

Min(a, b) == IF a <= b THEN a ELSE b

\* random.random() is drawn from k / JitterSteps, k in Draws.  A delay is
\* counted in ticks of 1 / (2 * JitterSteps) second, so that the factor
\* 0.5 + random.random() is JitterSteps + 2k ticks for each second.
Draws == 0..(JitterSteps - 1)
TicksPerSecond == 2 * JitterSteps

\* CappedDelay as it would be without the cap.
CappedDelay_NoCap(att) == base_delay * Pow(exponential_base, att)

\* delay = self.base_delay * (self.exponential_base ** attempt)
\* delay = min(delay, self.max_delay)                          (in seconds)
CappedDelay(att) == Min(base_delay * Pow(exponential_base, att), max_delay)

\* if self.jitter: delay = delay * (0.5 + random.random())      (in ticks)
calculate_delay(att, draw) ==
    IF jitter THEN CappedDelay(att) * (JitterSteps + 2 * draw)
    ELSE CappedDelay(att) * TicksPerSecond

\* ------------------------------------------------------ RequestExecutor
\* RetryIndex as it would be if attempts were counted from one.
RetryIndex_OneBased(att) == att + 1

\* The first argument of self.retry_config.on_retry(attempt, delay, exc).
RetryIndex(att) == att

\* What one attempt of _request leads to: the call ends with a result, or
\* it goes to sleep for the backoff delay; observer says whether on_retry
\* was invoked on the way.
Finish(res) == [next |-> "done", result |-> res, observer |-> FALSE]

\* WBAPIError(f"Network error: {e}"): no status code.
NetworkError == Outcome("WBAPIError")

\* The retry branch: delay computed, on_retry invoked when set (it may
\* raise), then asyncio.sleep(delay) and continue.
Backoff(obsRaises) ==
    IF on_retry /\ obsRaises
    THEN [next |-> "done", result |-> Outcome("ObserverError"), observer |-> TRUE]
    ELSE [next |-> "sleep", result |-> NoResult, observer |-> on_retry]

\* OnStatus as it would be if the retry branch came before the 401 check.
OnStatus_RetryFirst(att, resp, obsRaises) ==
    IF IsRetryable(resp.status) /\ AttemptsRemain(att) THEN Backoff(obsRaises)
    ELSE IF RaiseForStatus(resp) # NoResult THEN Finish(RaiseForStatus(resp))
    ELSE Finish(ResponseOf(resp))

\* The try body of _request once the transport returned a response.
OnStatus(att, resp, obsRaises) ==
    IF resp.status = 401 THEN Finish(RaiseForStatus(resp))
    ELSE IF IsRetryable(resp.status) /\ AttemptsRemain(att) THEN Backoff(obsRaises)
    ELSE IF RaiseForStatus(resp) # NoResult THEN Finish(RaiseForStatus(resp))
    ELSE Finish(ResponseOf(resp))

\* OnTransportFailure as it would be if the last failure were re-raised.
OnTransportFailure_Reraise(att, resp, obsRaises) ==
    IF resp.type \in {"timeout", "network"} /\ AttemptsRemain(att)
    THEN Backoff(obsRaises)
    ELSE Finish(Outcome("TransportError"))

\* except (httpx.TimeoutException, httpx.NetworkError); any other transport
\* exception is not caught and leaves the call as it is.
OnTransportFailure(att, resp, obsRaises) ==
    IF resp.type \in {"timeout", "network"} THEN
        IF AttemptsRemain(att) THEN Backoff(obsRaises) ELSE Finish(NetworkError)
    ELSE Finish(Outcome("TransportError"))

OnAttempt(att, resp, obsRaises) ==
    IF resp.type = "status" THEN OnStatus(att, resp, obsRaises)
    ELSE OnTransportFailure(att, resp, obsRaises)

\* ------------------------------------------------------ ConcurrencyGate
\* asyncio.Semaphore as held in BaseAPIClient._semaphore.  A waiter whose
\* future has been given a slot stays in _waiters ("granted") until its
\* task runs again.
Without(w, c) == SelectSeq(w, LAMBDA x : x # c)

\* Locked as it would be if the count were not looked at.
Locked_IgnoresValue(v, w) == w # << >>

\* Semaphore.locked()
Locked(v, w) == v = 0 \/ w # << >>

\* Semaphore._wake_up_next(): the first waiter whose future is not done
\* takes one slot.
WakeUpNext(v, w, p) ==
    LET pending == SelectSeq(w, LAMBDA x : p[x] = "waiting") IN
    IF pending = << >> THEN [value |-> v, pc |-> p, woke |-> FALSE]
    ELSE [value |-> v - 1, pc |-> [p EXCEPT ![Head(pending)] = "granted"],
          woke |-> TRUE]

\* finally: while self._value > 0: if not self._wake_up_next(): break
RECURSIVE WakeWhilePositive(_, _, _)
WakeWhilePositive(v, w, p) ==
    IF v > 0 /\ WakeUpNext(v, w, p).woke
    THEN WakeWhilePositive(WakeUpNext(v, w, p).value, w, WakeUpNext(v, w, p).pc)
    ELSE [value |-> v, pc |-> p, woke |-> FALSE]

\* Release as it would be if no waiter were woken.
Release_NoWake(v, w, p) == [value |-> v + 1, pc |-> p, woke |-> FALSE]

\* Semaphore.release(): self._value += 1; self._wake_up_next()
Release(v, w, p) == WakeUpNext(v + 1, w, p)

\* Suspend as it would be if the slot were given back for the time of the
\* backoff sleep.
Suspend_ReleasesSlot(v, w, p) == Release(v, w, p)

\* await asyncio.sleep(delay) inside "async with self._semaphore": the
\* semaphore is not touched.
Suspend(v, w, p) == [value |-> v, pc |-> p, woke |-> FALSE]

\* Calls that own a slot: running or suspended inside "async with
\* self._semaphore".
HoldingStates == {"sending", "sleeping", "reading", "yielded", "abandoned"}
Holders == {c \in Calls : pc[c] \in HoldingStates}
Granted == {c \in Calls : pc[c] = "granted"}

\* Synchronous report streams whose HTTP response is open.
SyncOpen == {c \in Calls : pc[c] = "sync_open"}

\* Calls are numbered in the order they are made.
InOrder(c) == IF c = 1 THEN TRUE ELSE pc[c - 1] # "idle"

\* What is recorded of a call.  For a traced call: the response of its
\* latest transport request, its counters and its full result.  For any
\* other call: how it ended, and nothing once it has ended.
ServiceErrors == {"WBAuthError", "WBRateLimitError", "WBAPIError", "ValueError",
                  "TransportError", "DecodeError", "TransformError"}
Recorded(c, resp) == IF c \in traced THEN resp ELSE NoResponse
ResultOf(c, res) ==
    IF c \in traced THEN res
    ELSE IF res.kind \in ServiceErrors THEN Outcome("error")
    ELSE Outcome(res.kind)
Forget(c, f) == IF c \in traced THEN f ELSE [f EXCEPT ![c] = 0]

\* The answers tried for a call's transport request: every one for a traced
\* call; for any other call one per path through the code (success, 204,
\* a status that fails at once, a retryable status, a transport failure
\* that is caught, one that is not), since nothing else of it is recorded.
OneOfEach ==
    { r \in Responses :
        /\ r.status \in {0, 200, 204, 400, 503}
        /\ r.type # "network" }
Answers(c) == IF c \in traced THEN Responses ELSE OneOfEach

\* ------------------------------------------------------ report pages
\* rrd_id values the service numbers its rows with.
RrdIds == {1, 2}

\* A report row: its rrd_id (None when the row has no such key) and who
\* made it: the service, or the transform callback from a service row.
ServiceRows == { [rrd_id |-> r, by |-> "service"] :
                    r \in {None} \cup {Some(n) : n \in RrdIds} }

\* The transform callbacks tried: none given, one that marks the row and
\* keeps its keys, one that builds a row without rrd_id.
Transforms == {"none", "tag", "strip"}

\* transform(row) if transform else row
Apply(tr, row) ==
    CASE tr = "none" -> row
      [] tr = "tag" -> [row EXCEPT !.by = "tag"]
      [] tr = "strip" -> [rrd_id |-> None, by |-> "strip"]

\* row.get("rrd_id", 0)
RrdId(row) == IF row.rrd_id = None THEN 0 ELSE row.rrd_id[1]

\* The answer to a page request: the status, whether the JSON body is a
\* list, its rows, and whether the body is intact: when it is not (malformed
\* JSON, or the connection lost while it is read), rows are those that can
\* be decoded before the failure.
NoPage == [status |-> 0, is_list |-> FALSE, rows |-> << >>, intact |-> TRUE]

\* ----------------------------------------------------------------- Init
\* The retry configuration before calculate_delay has been called: the
\* defaults of RetryConfig.
BackoffIdle ==
    /\ base_delay = 1
    /\ max_delay = 60
    /\ exponential_base = 2
    /\ jitter = TRUE
    /\ delays = << >>

\* No report is being fetched.
PagerIdle ==
    /\ package = "statistic"
    /\ mode = "buffered"
    /\ fetch_all = FALSE
    /\ rrdid = 0
    /\ transform = "none"
    /\ logged = FALSE
    /\ phase = "idle"
    /\ current_rrdid = 0
    /\ last_rrdid = 0
    /\ row_count = 0
    /\ page = NoPage
    /\ page_requests = << >>
    /\ transport_log = << >>
    /\ received = << >>
    /\ delivered = << >>

\* ---------------------------------------------------------- PingCache
Pings == 1..NumPings

\* Cache keys: base_url + endpoint for two endpoints of one client.
Keys == {"/ping", "/api/v1/ping"}

\* What response.json() gives for a ping response: JSON null or an object.
JsonValues == {None, Some("ok"), Some("busy")}

\* An entry of PingCache._cache; `present` is `key in self._cache`.
NoEntry == [present |-> FALSE, value |-> None, timestamp |-> 0]
Entry(v, t) == [present |-> TRUE, value |-> v, timestamp |-> t]
EmptyCache == [k \in Keys |-> NoEntry]

NoGet == [called |-> FALSE, returned |-> None, entry |-> NoEntry, age |-> 0]

\* No ping() has been called.
PingsIdle ==
    /\ ping_pc = [p \in Pings |-> "idle"]
    /\ ping_key = [p \in Pings |-> "/ping"]
    /\ ping_result = [p \in Pings |-> None]
    /\ ping_sent = [p \in Pings |-> 0]
    /\ ping_started = [p \in Pings |-> 0]
    /\ ping_seen = [p \in Pings |-> NoEntry]
    /\ ping_stored = [p \in Pings |-> None]
    /\ ping_prior = [p \in Pings |-> {}]

\* PingCache.__init__, and the clock at that time (taken as 0).
CacheEmpty ==
    /\ now = 0
    /\ cache = EmptyCache
    /\ latest = EmptyCache
    /\ got = NoGet

\* The cache of a client on which ping() is not called: ttl is 30 s, here
\* MaxTtl ticks.
PingerIdle ==
    /\ CacheEmpty
    /\ ttl = MaxTtl
    /\ PingsIdle

\* The state after construction of a client whose calls in t are traced.
InitWith(t) ==
    /\ traced = t
    /\ max_concurrent \in 1..MaxSlots
    /\ max_retries \in 0..MaxRetriesBound
    /\ retry_on_statuses \in RetrySets
    /\ on_retry \in BOOLEAN
    /\ sem_value = max_concurrent
    /\ sem_waiters = << >>
    /\ kind = [c \in Calls |-> "request"]
    /\ pc = [c \in Calls |-> "idle"]
    /\ attempt = [c \in Calls |-> 0]
    /\ requests = [c \in Calls |-> 0]
    /\ observed = [c \in Calls |-> 0]
    /\ emitted = [c \in Calls |-> 0]
    /\ last = [c \in Calls |-> NoResponse]
    /\ result = [c \in Calls |-> NoResult]
    /\ indices = [c \in Calls |-> << >>]

\* Several untraced calls on one client.  What they do to the gate does not
\* depend on the retry configuration beyond how often a call may sleep, and
\* a call may always sleep less often than max_retries allows: the largest
\* max_retries, with an observer, covers the others.
Init ==
    /\ InitWith({})
    /\ max_retries = MaxRetriesBound
    /\ retry_on_statuses = DefaultRetryStatuses
    /\ on_retry
    /\ BackoffIdle
    /\ PagerIdle
    /\ PingerIdle

\* A client on which no call is made.
ClientIdle ==
    /\ InitWith({})
    /\ max_concurrent = 1
    /\ max_retries = 0
    /\ retry_on_statuses = DefaultRetryStatuses
    /\ on_retry = FALSE

\* -------------------------------------------------------------- actions
\* The end of a call: its result, and its counters (obs: the on_retry
\* invocations so far).
Ends(c, res, obs) ==
    /\ result' = [result EXCEPT ![c] = ResultOf(c, res)]
    /\ attempt' = Forget(c, attempt)
    /\ requests' = Forget(c, requests)
    /\ observed' = Forget(c, obs)
    /\ emitted' = Forget(c, emitted)

\* ExitHolding as it would be if the slot were released by hand after the
\* body, with nothing to release it when the body is cancelled.
ExitHolding_LeakOnCancel(c, res, obs) ==
    LET r == IF res.kind = "CancelledError"
             THEN [value |-> sem_value, pc |-> [pc EXCEPT ![c] = "done"]]
             ELSE Release(sem_value, sem_waiters, [pc EXCEPT ![c] = "done"])
    IN
    /\ sem_value' = r.value
    /\ pc' = r.pc
    /\ Ends(c, res, obs)
    /\ UNCHANGED sem_waiters

\* The exit of "async with self._semaphore" for a call that owns a slot.
ExitHolding(c, res, obs) ==
    LET r == Release(sem_value, sem_waiters, [pc EXCEPT ![c] = "done"]) IN
    /\ sem_value' = r.value
    /\ pc' = r.pc
    /\ Ends(c, res, obs)
    /\ UNCHANGED sem_waiters

\* A call of _request, stream_get or stream_post enters "async with
\* self._semaphore": it takes a slot and issues its first request, or joins
\* the waiters.
Call(c) ==
    /\ pc[c] = "idle"
    /\ InOrder(c)
    /\ \E k \in AsyncKinds : kind' = [kind EXCEPT ![c] = k]
    /\ IF ~Locked(sem_value, sem_waiters)
       THEN /\ sem_value' = sem_value - 1
            /\ pc' = [pc EXCEPT ![c] = "sending"]
            /\ requests' = [requests EXCEPT ![c] = 1]
            /\ UNCHANGED sem_waiters
       ELSE /\ sem_waiters' = Append(sem_waiters, c)
            /\ pc' = [pc EXCEPT ![c] = "waiting"]
            /\ UNCHANGED << sem_value, requests >>
    /\ UNCHANGED << config, attempt, observed, emitted, last, result >>
    /\ UNCHANGED << indices, backoff, pager, pinger >>

\* A waiter that was given a slot runs again: it leaves _waiters, hands any
\* free slot on, and issues its first request.
Resume(c) ==
    /\ pc[c] = "granted"
    /\ LET w == Without(sem_waiters, c)
           r == WakeWhilePositive(sem_value, w, [pc EXCEPT ![c] = "sending"])
       IN /\ sem_waiters' = w
          /\ sem_value' = r.value
          /\ pc' = r.pc
    /\ requests' = [requests EXCEPT ![c] = 1]
    /\ UNCHANGED << config, kind, attempt, observed, emitted, last, result >>
    /\ UNCHANGED << indices, backoff, pager, pinger >>

\* _request: the transport answers the request in flight (or fails).
Respond(c) ==
    /\ pc[c] = "sending"
    /\ kind[c] = "request"
    /\ \E resp \in Answers(c), obsRaises \in BOOLEAN :
        LET step == OnAttempt(attempt[c], resp, obsRaises)
            obs == [observed EXCEPT ![c] = @ + (IF step.observer THEN 1 ELSE 0)]
        IN
        /\ last' = [last EXCEPT ![c] = Recorded(c, resp)]
        /\ indices' = IF step.observer /\ c \in traced
                      THEN [indices EXCEPT ![c] = Append(@, RetryIndex(attempt[c]))]
                      ELSE indices
        /\ IF step.next = "sleep"
           THEN LET r == Suspend(sem_value, sem_waiters,
                                 [pc EXCEPT ![c] = "sleeping"])
                IN /\ sem_value' = r.value
                   /\ pc' = r.pc
                   /\ observed' = obs
                   /\ UNCHANGED << sem_waiters, result, attempt, requests, emitted >>
           ELSE ExitHolding(c, step.result, obs)
    /\ UNCHANGED << config, kind >>
    /\ UNCHANGED << backoff, pager, pinger >>

\* _request: asyncio.sleep(delay) returns; continue with the next attempt.
SleepDone(c) ==
    /\ pc[c] = "sleeping"
    /\ pc' = [pc EXCEPT ![c] = "sending"]
    /\ attempt' = [attempt EXCEPT ![c] = @ + 1]
    /\ requests' = [requests EXCEPT ![c] = @ + 1]
    /\ last' = [last EXCEPT ![c] = NoResponse]
    /\ UNCHANGED << config, sem_value, sem_waiters, kind, observed, emitted, result >>
    /\ UNCHANGED << indices, backoff, pager, pinger >>

\* The task running the call is cancelled while the call is suspended:
\* waiting for a slot, given one but not yet running, awaiting the
\* transport, or sleeping in backoff.  CancelledError leaves through the
\* semaphore's acquire or through "async with".
Cancel(c) ==
    /\ pc[c] \in {"waiting", "granted", "sending", "sleeping", "reading"}
    /\ IF pc[c] \in {"waiting", "granted"}
       THEN LET w == Without(sem_waiters, c)
                v == IF pc[c] = "granted" THEN sem_value + 1 ELSE sem_value
                r == WakeWhilePositive(v, w, [pc EXCEPT ![c] = "done"])
            IN /\ sem_waiters' = w
               /\ sem_value' = r.value
               /\ pc' = r.pc
               /\ Ends(c, Outcome("CancelledError"), observed)
       ELSE ExitHolding(c, Outcome("CancelledError"), observed)
    /\ UNCHANGED << config, kind, last >>
    /\ UNCHANGED << indices, backoff, pager, pinger >>

\* ------------------------------------------------- stream_get / stream_post
\* OnStreamResponse as it would be if the body were read before the
\* status is looked at.
OnStreamResponse_ReadsFirst(resp) ==
    IF resp.type # "status" THEN Finish(Outcome("TransportError"))
    ELSE IF resp.status = 204 THEN Finish(Outcome("end"))
    ELSE [next |-> "reading", result |-> NoResult, observer |-> FALSE]

\* What the response of self._client.stream(...) leads to: the generator
\* ends with a result, or it starts reading rows.  A transport exception is
\* not caught here.
OnStreamResponse(resp) ==
    IF resp.type # "status" THEN Finish(Outcome("TransportError"))
    ELSE IF resp.status = 204 THEN Finish(Outcome("end"))
    ELSE IF RaiseForStatus(resp) # NoResult THEN Finish(RaiseForStatus(resp))
    ELSE [next |-> "reading", result |-> NoResult, observer |-> FALSE]

\* The response of the streamed request arrives.
StreamOpen(c) ==
    /\ pc[c] = "sending"
    /\ kind[c] \in StreamKinds
    /\ \E resp \in Answers(c) :
        LET step == OnStreamResponse(resp) IN
        /\ last' = [last EXCEPT ![c] = Recorded(c, resp)]
        /\ IF step.next = "reading"
           THEN /\ pc' = [pc EXCEPT ![c] = "reading"]
                /\ UNCHANGED << sem_value, sem_waiters, result, attempt, requests,
                                observed, emitted >>
           ELSE ExitHolding(c, step.result, observed)
    /\ UNCHANGED << config, kind >>
    /\ UNCHANGED << indices, backoff, pager, pinger >>

\* What the body of a streamed response gives next.
StreamEvents == {"row", "transform_raises", "end", "decode_error", "transport_error"}

\* What "async for item in ijson.items_async(...)" leads to for one event:
\* a row is yielded (after transform), or the generator ends.
OnStreamEvent(ev) ==
    CASE ev = "row" -> [next |-> "yielded", result |-> NoResult]
      [] ev = "transform_raises" -> [next |-> "done", result |-> Outcome("TransformError")]
      [] ev = "end" -> [next |-> "done", result |-> Outcome("end")]
      [] ev = "decode_error" -> [next |-> "done", result |-> Outcome("DecodeError")]
      [] ev = "transport_error" -> [next |-> "done", result |-> Outcome("TransportError")]

\* The generator reads on: the next row, the end of the body, or a failure.
StreamRead(c) ==
    /\ pc[c] = "reading"
    /\ \E ev \in StreamEvents :
        /\ ev \in {"row", "transform_raises"} => emitted[c] < MaxRows
        /\ IF OnStreamEvent(ev).next = "yielded"
           THEN /\ pc' = [pc EXCEPT ![c] = "yielded"]
                /\ emitted' = [emitted EXCEPT ![c] = @ + 1]
                /\ UNCHANGED << sem_value, sem_waiters, result, attempt, requests,
                                observed >>
           ELSE ExitHolding(c, OnStreamEvent(ev).result, observed)
    /\ UNCHANGED << config, kind, last >>
    /\ UNCHANGED << indices, backoff, pager, pinger >>

\* The consumer asks for the next item.
ConsumerNext(c) ==
    /\ pc[c] = "yielded"
    /\ pc' = [pc EXCEPT ![c] = "reading"]
    /\ UNCHANGED << config, sem_value, sem_waiters, kind, attempt, requests,
                    observed, emitted, last, result >>
    /\ UNCHANGED << indices, backoff, pager, pinger >>

\* The consumer stops iterating (break, an exception, cancellation of its
\* task): the generator stays suspended at its yield.
ConsumerStop(c) ==
    /\ pc[c] = "yielded"
    /\ pc' = [pc EXCEPT ![c] = "abandoned"]
    /\ UNCHANGED << config, sem_value, sem_waiters, kind, attempt, requests,
                    observed, emitted, last, result >>
    /\ UNCHANGED << indices, backoff, pager, pinger >>

\* Finalize as it would be if closing the generator did not run the exit of
\* "async with".
Finalize_NoRelease(c) ==
    /\ pc[c] = "abandoned"
    /\ pc' = [pc EXCEPT ![c] = "done"]
    /\ Ends(c, Outcome("closed"), observed)
    /\ UNCHANGED << config, sem_value, sem_waiters, kind, last >>
    /\ UNCHANGED << indices, backoff, pager, pinger >>

\* The abandoned generator is closed (aclose() by the consumer or by the
\* event loop's finalizer): GeneratorExit leaves through "async with".
Finalize(c) ==
    /\ pc[c] = "abandoned"
    /\ ExitHolding(c, Outcome("closed"), observed)
    /\ UNCHANGED << config, kind, last >>
    /\ UNCHANGED << indices, backoff, pager, pinger >>

\* ------------------------- statistic.ReportsAPI.stream_report_detail_by_period
\* The status checks of the synchronous stream: NoResult when the response
\* is read on, else what the generator ends with.
SyncRaiseForStatus(resp) ==
    IF resp.status = 204 THEN Outcome("end")
    ELSE IF resp.status = 401 THEN
        [kind |-> "WBAuthError", status_code |-> Some(401), retry_after |-> None]
    ELSE IF resp.status = 429 THEN
        IF IsFalsy(resp.retry_after) THEN
            [kind |-> "WBRateLimitError", status_code |-> Some(429),
             retry_after |-> None]
        ELSE IF IsNumeric(resp.retry_after) THEN
            [kind |-> "WBRateLimitError", status_code |-> Some(429),
             retry_after |-> Some(FloatOf(resp.retry_after))]
        ELSE Outcome("ValueError")
    ELSE IF resp.status # 200 THEN
        [kind |-> "WBAPIError", status_code |-> Some(resp.status),
         retry_after |-> None]
    ELSE NoResult

\* What the first item of a page's body is.
SyncFirstEvents == {"row", "transform_raises", "empty", "decode_error"}

\* One pass of the while loop up to its first yield: requests.get(), the
\* status checks, the first item.  The generator is suspended at the yield
\* with the response open ("sync_open"), or it has ended and the "with"
\* block has closed the response.
OnSyncPage(resp, first) ==
    IF resp.type # "status" THEN [next |-> "done", result |-> Outcome("TransportError")]
    ELSE IF SyncRaiseForStatus(resp) # NoResult
        THEN [next |-> "done", result |-> SyncRaiseForStatus(resp)]
    ELSE CASE first = "row" -> [next |-> "sync_open", result |-> NoResult]
           [] first = "transform_raises" ->
                [next |-> "done", result |-> Outcome("TransformError")]
           [] first = "empty" -> [next |-> "done", result |-> Outcome("end")]
           [] first = "decode_error" ->
                [next |-> "done", result |-> Outcome("DecodeError")]

\* The end of the generator: the "with" block closes the response.  The
\* semaphore is not touched: the stream calls requests.get() directly.
SyncEnds(c, res, reqs) ==
    /\ pc' = [pc EXCEPT ![c] = "done"]
    /\ result' = [result EXCEPT ![c] = ResultOf(c, res)]
    /\ requests' = Forget(c, reqs)
    /\ emitted' = Forget(c, emitted)

\* The generator's effect on the call's state after a page request.
SyncAfterPage(c, resp, first) ==
    LET step == OnSyncPage(resp, first)
        reqs == [requests EXCEPT ![c] = @ + 1]
    IN
    /\ last' = [last EXCEPT ![c] = Recorded(c, resp)]
    /\ IF step.next = "sync_open"
       THEN /\ pc' = [pc EXCEPT ![c] = "sync_open"]
            /\ requests' = reqs
            /\ emitted' = [emitted EXCEPT ![c] = 1]
            /\ UNCHANGED result
       ELSE SyncEnds(c, step.result, reqs)

\* The consumer starts iterating the synchronous stream: the first page is
\* requested.
SyncCall(c) ==
    /\ pc[c] = "idle"
    /\ InOrder(c)
    /\ kind' = [kind EXCEPT ![c] = "sync_stream"]
    /\ \E resp \in Answers(c), first \in SyncFirstEvents : SyncAfterPage(c, resp, first)
    /\ UNCHANGED << config, sem_value, sem_waiters, attempt, observed >>
    /\ UNCHANGED << indices, backoff, pager, pinger >>

\* What the open response gives when the consumer asks for the next item.
\* Whether another page is requested once the page has ended (fetch_all, the
\* cursor of its last row) is left open here.
SyncEvents == {"row", "transform_raises", "decode_error", "return", "next_page"}

SyncNext(c) ==
    /\ pc[c] = "sync_open"
    /\ \E ev \in SyncEvents :
        /\ ev \in {"row", "transform_raises"} => emitted[c] < MaxRows
        /\ ev = "next_page" => requests[c] < MaxPages
        /\ IF ev = "next_page"
           THEN \E resp \in Answers(c), first \in SyncFirstEvents :
                    SyncAfterPage(c, resp, first)
           ELSE IF ev = "row"
           THEN /\ emitted' = [emitted EXCEPT ![c] = @ + 1]
                /\ UNCHANGED << pc, result, last, requests >>
           ELSE /\ SyncEnds(c, CASE ev = "transform_raises" -> Outcome("TransformError")
                                 [] ev = "decode_error" -> Outcome("DecodeError")
                                 [] ev = "return" -> Outcome("end"),
                            requests)
                /\ UNCHANGED last
    /\ UNCHANGED << config, sem_value, sem_waiters, kind, attempt, observed >>
    /\ UNCHANGED << indices, backoff, pager, pinger >>

\* The consumer stops iterating: the generator is closed at its yield and
\* the "with" block closes the response.
SyncStop(c) ==
    /\ pc[c] = "sync_open"
    /\ SyncEnds(c, Outcome("closed"), requests)
    /\ UNCHANGED << config, sem_value, sem_waiters, kind, attempt, observed, last >>
    /\ UNCHANGED << indices, backoff, pager, pinger >>

\* ----------------------------------------------------------------- Next
Next ==
    \E c \in Calls :
        \/ Call(c)
        \/ Resume(c)
        \/ Respond(c)
        \/ SleepDone(c)
        \/ Cancel(c)
        \/ StreamOpen(c)
        \/ StreamRead(c)
        \/ ConsumerNext(c)
        \/ ConsumerStop(c)
        \/ Finalize(c)
        \/ SyncCall(c)
        \/ SyncNext(c)
        \/ SyncStop(c)

Spec == Init /\ [][Next]_vars

\* An abandoned generator is closed in the end: the consumer calls aclose(),
\* or the event loop's asynchronous-generator finalizer does once the
\* consumer has dropped the iterator.
Fairness == \A c \in Calls : WF_vars(Finalize(c))

\* Streams never retry, so one retry of a buffered call is enough next to
\* them.
FairInit ==
    /\ InitWith({})
    /\ max_retries = 1
    /\ retry_on_statuses = DefaultRetryStatuses
    /\ on_retry
    /\ BackoffIdle
    /\ PagerIdle
    /\ PingerIdle

FairSpec == FairInit /\ [][Next]_vars /\ Fairness

\* Every call that can run does run in the end: the event loop resumes a
\* waiter that was given a slot, the transport answers or fails, a sleep
\* returns, the consumer of a stream asks for the next row or stops, and an
\* abandoned generator is closed.  Cancellation and new calls are up to the
\* caller.
Progress(c) ==
    \/ Resume(c)
    \/ Respond(c)
    \/ SleepDone(c)
    \/ StreamOpen(c)
    \/ StreamRead(c)
    \/ ConsumerNext(c)
    \/ ConsumerStop(c)
    \/ Finalize(c)

LiveFairness == \A c \in Calls : WF_vars(Progress(c))

\* Calls competing for the slots of one client: they retry at most once,
\* without an observer, which is all the gate can tell of a retry policy.
LiveInit ==
    /\ InitWith({})
    /\ max_retries = 1
    /\ retry_on_statuses = DefaultRetryStatuses
    /\ ~on_retry
    /\ BackoffIdle
    /\ PagerIdle
    /\ PingerIdle

LiveNext == \E c \in Calls : Call(c) \/ Progress(c) \/ Cancel(c)

LiveSpec == LiveInit /\ [][LiveNext]_vars /\ LiveFairness

\* A stream and its consumer: call 1 is stream_get or stream_post, and
\* between two rows its consumer may await a _request call (get, ping) on
\* the same client, call 2.  The consumer goes on (asks for the next row,
\* stops iterating) only once that call has returned or raised.
ConsumerFree == pc[2] \in {"idle", "done"}

NestedStream == Call(1) /\ kind'[1] \in StreamKinds

NestedAwait == pc[1] = "yielded" /\ Call(2) /\ kind'[2] = "request"

\* What the stream, its consumer and the awaited call do on their own.
NestedProgress ==
    \/ StreamOpen(1)
    \/ StreamRead(1)
    \/ ConsumerFree /\ ConsumerNext(1)
    \/ ConsumerFree /\ ConsumerStop(1)
    \/ Finalize(1)
    \/ Respond(2)
    \/ SleepDone(2)

NestedInit ==
    /\ InitWith({1, 2})
    /\ max_retries = 1
    /\ retry_on_statuses = DefaultRetryStatuses
    /\ ~on_retry
    /\ BackoffIdle
    /\ PagerIdle
    /\ PingerIdle

\* The awaited call may be cancelled from outside (a timeout around it).
NestedNext == NestedStream \/ NestedAwait \/ NestedProgress \/ Cancel(2)

NestedSpec == NestedInit /\ [][NestedNext]_vars

\* One call, traced, alone on the client: what a single call does with the
\* answers of the service.  No other call competes for the slot, so the call
\* never waits.
InitTraced == InitWith({1}) /\ BackoffIdle /\ PagerIdle /\ PingerIdle

NextTraced ==
    \E c \in {1} :
        \/ Call(c)
        \/ Respond(c)
        \/ SleepDone(c)
        \/ Cancel(c)
        \/ StreamOpen(c)
        \/ StreamRead(c)
        \/ ConsumerNext(c)
        \/ ConsumerStop(c)
        \/ Finalize(c)
        \/ SyncCall(c)
        \/ SyncNext(c)
        \/ SyncStop(c)

SpecTraced == InitTraced /\ [][NextTraced]_vars

\* ------------------------------------------------- ReportsAPI pagination
\* One run of get_report_detail_by_period ("buffered") or of the report
\* stream ("stream": stream_report_detail_by_period of the statistic
\* package, _stream_with_pagination of the statistics package).  A page
\* request is answered with what the client ends the request with: a 200
\* with a JSON body, a 204, or an error status that is raised as a typed
\* error.
client == << max_concurrent, max_retries, retry_on_statuses, on_retry,
             sem_value, sem_waiters, kind, pc, attempt, requests, observed,
             emitted, last, result, traced, indices >>

SeqsUpTo(S, n) == UNION { [1..k -> S] : k \in 0..n }

RECURSIVE Flatten(_)
Flatten(pages) == IF pages = << >> THEN << >> ELSE Head(pages) \o Flatten(Tail(pages))

Last(rows) == rows[Len(rows)]

\* [transform(row) for row in rows]
Map(tr, rows) == [i \in 1..Len(rows) |-> Apply(tr, rows[i])]

\* The answers to a page request whose body has at most n rows.
PageAnswers(n) ==
    { [status |-> 200, is_list |-> TRUE, rows |-> rows, intact |-> ok] :
        rows \in SeqsUpTo(ServiceRows, n), ok \in BOOLEAN }
    \cup { [status |-> 200, is_list |-> FALSE, rows |-> << >>, intact |-> TRUE],
           [status |-> 204, is_list |-> FALSE, rows |-> << >>, intact |-> TRUE],
           [status |-> 500, is_list |-> FALSE, rows |-> << >>, intact |-> TRUE] }

\* Get as it would be if the body of a 204 were parsed as JSON.
Get_ParsesNoContent(ans) ==
    IF ans.status >= 400 \/ ans.status = 204 \/ ~ans.intact
    THEN [raises |-> TRUE, is_list |-> FALSE, rows |-> << >>]
    ELSE [raises |-> FALSE, is_list |-> ans.is_list, rows |-> ans.rows]

\* BaseAPIClient.get: _request raises for an error status; a 204 gives [],
\* any other response its JSON body, and response.json() raises when the
\* body is not intact.
Get(ans) ==
    IF ans.status >= 400 THEN [raises |-> TRUE, is_list |-> FALSE, rows |-> << >>]
    ELSE IF ans.status = 204 THEN [raises |-> FALSE, is_list |-> TRUE, rows |-> << >>]
    ELSE IF ~ans.intact THEN [raises |-> TRUE, is_list |-> FALSE, rows |-> << >>]
    ELSE [raises |-> FALSE, is_list |-> ans.is_list, rows |-> ans.rows]

\* rows = result if isinstance(result, list) else []
RowsOf(res) == IF res.is_list THEN res.rows ELSE << >>

\* The rrdid parameter of the next page request.
RequestCursor_AlwaysCurrent == current_rrdid

\* RequestCursor as it would be if a fetch_all run started at the rrdid
\* argument.
RequestCursor_StartsAtArgument ==
    IF mode = "buffered" /\ (~fetch_all \/ page_requests = << >>)
    THEN rrdid ELSE current_rrdid

RequestCursor ==
    IF mode = "buffered" /\ ~fetch_all THEN rrdid ELSE current_rrdid

\* Pass as it would be if the cursor were never moved.
Pass_KeepsCursor(ph, cursor, rows) ==
    [phase |-> ph, current_rrdid |-> current_rrdid, rows |-> rows]

\* What one pass of a pagination loop leads to: the rows it adds to the
\* result, the next cursor, and whether the run goes on ("ready"), is over
\* ("done") or raises ("failed").
Pass(ph, cursor, rows) == [phase |-> ph, current_rrdid |-> cursor, rows |-> rows]

\* StatisticBuffered as it would be with the stall check placed before the
\* rows are added.
StatisticBuffered_GuardFirst(ans) ==
    LET res == Get(ans)
        rows == RowsOf(res)
    IN
    IF res.raises THEN Pass("failed", current_rrdid, << >>)
    ELSE IF rows = << >> THEN Pass("done", current_rrdid, << >>)
    ELSE IF RrdId(Last(rows)) = current_rrdid THEN Pass("done", current_rrdid, << >>)
    ELSE Pass("ready", RrdId(Last(rows)), Map(transform, rows))

\* statistic/reports.py, get_report_detail_by_period, fetch_all: one pass
\* of the while loop once the page has arrived.
StatisticBuffered(ans) ==
    LET res == Get(ans)
        rows == RowsOf(res)
    IN
    IF res.raises THEN Pass("failed", current_rrdid, << >>)
    ELSE IF rows = << >> THEN Pass("done", current_rrdid, << >>)
    ELSE IF RrdId(Last(rows)) = current_rrdid
        THEN Pass("done", current_rrdid, Map(transform, rows))
    ELSE Pass("ready", RrdId(Last(rows)), Map(transform, rows))

\* statistics/reports.py, get_report_detail_by_period, fetch_all: the
\* cursor is read from the last row after transform; there is no stall
\* check.
StatisticsBuffered(ans) ==
    LET res == Get(ans)
        rows == RowsOf(res)
    IN
    IF res.raises THEN Pass("failed", current_rrdid, << >>)
    ELSE IF rows = << >> THEN Pass("done", current_rrdid, << >>)
    ELSE Pass("ready", RrdId(Last(Map(transform, rows))), Map(transform, rows))

\* get_report_detail_by_period without fetch_all (both packages): the rows
\* of the one page.
SinglePage(ans) ==
    LET res == Get(ans) IN
    IF res.raises THEN Pass("failed", current_rrdid, << >>)
    ELSE Pass("done", current_rrdid, Map(transform, RowsOf(res)))

BufferedPass(ans) ==
    IF ~fetch_all THEN SinglePage(ans)
    ELSE IF package = "statistic" THEN StatisticBuffered(ans)
    ELSE StatisticsBuffered(ans)

\* The streams, once the response of a page request is there: a 204 ends
\* the run, an error status raises, anything else is read row by row.
OpenPage(ans) ==
    IF ans.status = 204 THEN "done"
    ELSE IF ans.status # 200 THEN "failed"
    ELSE "reading"

\* StreamRrdId as it would be if the statistic stream too read the row
\* after transform.
StreamRrdId_AfterTransform(row) == RrdId(Apply(transform, row))

\* The rrd_id a stream keeps as last_rrdid for a row: read from the row as
\* received (statistic), or from the item stream_get yields, which is the
\* row after transform (statistics).
StreamRrdId(row) ==
    IF package = "statistic" THEN RrdId(row) ELSE RrdId(Apply(transform, row))

\* StatisticAfterPage as it would be without the stall check.
StatisticAfterPage_NoGuard ==
    IF row_count = 0 \/ ~fetch_all THEN Pass("done", current_rrdid, << >>)
    ELSE Pass("ready", last_rrdid, << >>)

\* statistic/reports.py, stream_report_detail_by_period, after the rows of
\* a page.
StatisticAfterPage ==
    IF row_count = 0 \/ ~fetch_all THEN Pass("done", current_rrdid, << >>)
    ELSE IF last_rrdid = current_rrdid THEN Pass("done", current_rrdid, << >>)
    ELSE Pass("ready", last_rrdid, << >>)

\* statistics/reports.py, _stream_with_pagination, after the rows of a page.
StatisticsAfterPage ==
    IF row_count = 0 \/ ~fetch_all THEN Pass("done", current_rrdid, << >>)
    ELSE Pass("ready", last_rrdid, << >>)

AfterPage == IF package = "statistic" THEN StatisticAfterPage ELSE StatisticsAfterPage

\* BodyEnds as it would be if a failure of the body were taken for its end.
BodyEnds_SwallowsFailure == AfterPage

\* The for loop over the items of the body is left: by its end, or by the
\* exception of the decoder or the transport, which goes to the consumer.
BodyEnds ==
    IF page.intact THEN AfterPage ELSE Pass("failed", current_rrdid, << >>)

\* The rows the service may still send: a logged run is given at most
\* MaxReportRows rows in all.
RowsLeft == IF logged THEN MaxReportRows - Len(Flatten(received)) ELSE MaxReportRows

Log(log, x) == IF logged THEN Append(log, x) ELSE log
LogRows(log, rows) == IF logged THEN log \o rows ELSE log

\* A run of either package, in either mode, with its arguments.
PageInit ==
    /\ ClientIdle
    /\ BackoffIdle
    /\ PingerIdle
    /\ package \in {"statistic", "statistics"}
    /\ mode \in {"buffered", "stream"}
    /\ fetch_all \in BOOLEAN
    /\ rrdid \in (IF mode = "buffered" THEN {0, 1} ELSE {0})
    /\ transform \in Transforms
    /\ logged \in BOOLEAN
    /\ phase = "ready"
    /\ current_rrdid = 0
    /\ last_rrdid = 0
    /\ row_count = 0
    /\ page = NoPage
    /\ page_requests = << >>
    /\ transport_log = << >>
    /\ received = << >>
    /\ delivered = << >>

\* PageRequest as it would be if the next page were requested while rows
\* of the open page are still to be yielded.
PageRequest_Early ==
    /\ phase \in {"ready", "reading"}
    /\ logged => Len(page_requests) < MaxPageRequests
    /\ phase' = "fetching"
    /\ page' = NoPage
    /\ page_requests' = Log(page_requests, RequestCursor)
    /\ last_rrdid' = 0
    /\ row_count' = 0
    /\ UNCHANGED << package, mode, fetch_all, rrdid, transform, logged,
                    transport_log,
                    current_rrdid, received, delivered >>
    /\ UNCHANGED << client, backoff, pinger >>

\* The next page is requested.
PageRequest ==
    /\ phase = "ready"
    /\ logged => Len(page_requests) < MaxPageRequests
    /\ phase' = "fetching"
    /\ page' = NoPage
    /\ page_requests' = Log(page_requests, RequestCursor)
    /\ last_rrdid' = 0
    /\ row_count' = 0
    /\ UNCHANGED << package, mode, fetch_all, rrdid, transform, logged,
                    transport_log,
                    current_rrdid, received, delivered >>
    /\ UNCHANGED << client, backoff, pinger >>

\* Returned as it would be if the rows gathered so far were handed over
\* when a page request fails.
Returned_KeepsPartial(pass) ==
    IF pass.phase = "failed" THEN delivered ELSE LogRows(delivered, pass.rows)

\* What the caller of the buffered call has after a pass: all_rows with the
\* rows of the pass, or nothing when the call raises (all_rows is a local).
Returned(pass) ==
    IF pass.phase = "failed" THEN << >> ELSE LogRows(delivered, pass.rows)

\* Buffered mode: the page arrives and the pass of the loop runs to its
\* end.  When the call raises, the rows gathered so far go with it.
PageAnswer ==
    /\ phase = "fetching"
    /\ mode = "buffered"
    /\ \E ans \in PageAnswers(RowsLeft) :
        LET pass == BufferedPass(ans) IN
        /\ page' = ans
        /\ received' = Log(received, ans.rows)
        /\ phase' = pass.phase
        /\ current_rrdid' = pass.current_rrdid
        /\ delivered' = Returned(pass)
    /\ UNCHANGED << package, mode, fetch_all, rrdid, transform, logged,
                    transport_log,
                    last_rrdid, row_count, page_requests >>
    /\ UNCHANGED << client, backoff, pinger >>

\* Stream mode: the response of the page request arrives.
PageOpen ==
    /\ phase = "fetching"
    /\ mode = "stream"
    /\ \E ans \in PageAnswers(RowsLeft) :
        /\ page' = ans
        /\ received' = Log(received, ans.rows)
        /\ phase' = OpenPage(ans)
    /\ UNCHANGED << package, mode, fetch_all, rrdid, transform, logged,
                    transport_log,
                    current_rrdid, last_rrdid, row_count, page_requests,
                    delivered >>
    /\ UNCHANGED << client, backoff, pinger >>

\* Stream mode: the next row of the open page is yielded, and the consumer
\* asks for more.
YieldRow ==
    /\ phase = "reading"
    /\ row_count < Len(page.rows)
    /\ LET row == page.rows[row_count + 1] IN
        /\ delivered' = Log(delivered, Apply(transform, row))
        /\ last_rrdid' = StreamRrdId(row)
    /\ row_count' = row_count + 1
    /\ UNCHANGED << package, mode, fetch_all, rrdid, transform, logged,
                    transport_log, phase,
                    current_rrdid, page, page_requests, received >>
    /\ UNCHANGED << client, backoff, pinger >>

\* Stream mode: the rows of the open page are through.
PageEnd ==
    /\ phase = "reading"
    /\ row_count = Len(page.rows)
    /\ phase' = BodyEnds.phase
    /\ current_rrdid' = BodyEnds.current_rrdid
    /\ UNCHANGED << package, mode, fetch_all, rrdid, transform, logged,
                    transport_log,
                    last_rrdid, row_count, page, page_requests, received,
                    delivered >>
    /\ UNCHANGED << client, backoff, pinger >>

PageNext ==
    \/ PageRequest
    \/ PageAnswer
    \/ PageOpen
    \/ YieldRow
    \/ PageEnd

\* The service answers every page request and the consumer of a stream
\* keeps asking for rows.
PageFairness == WF_vars(PageNext)

PageSpec == PageInit /\ [][PageNext]_vars /\ PageFairness

\* ------------------------------------------ pages fetched through _request
\* get_report_detail_by_period(fetch_all=True) with the executor under it:
\* every pass of the while loop calls self._client.get, which is one call
\* of _request.  Call 1 stands for the _request call of the page in hand.

\* FirstAttempt as it would be if the counter went on from where the call
\* for the page before left it.
FirstAttempt_Carried == attempt[1]

\* for attempt in range(self.retry_config.max_retries + 1): every call of
\* _request starts counting at 0.
FirstAttempt == 0

\* One transport request as the service sees it: the page it is for, the
\* rrdid parameter it carries, and the attempt of _request that sent it.
Sent(pg, cursor, att) == [page |-> pg, rrdid |-> cursor, attempt |-> att]

\* params is built once per pass of the loop and handed to every attempt.
Params == Last(page_requests)

\* The pass of the loop after _request is over: with the response it
\* returned and the body that came with it, or with what it raised.  The
\* pass looks at the last row of a page only, so pages of one row stand
\* for all.
PagesOf(res, resp) ==
    IF res.kind = "response"
    THEN { ans \in PageAnswers(Min(1, RowsLeft)) : ans.status = resp.status }
    ELSE { [NoPage EXCEPT !.status = resp.status] }

PassAfter(res, ans) ==
    IF res.kind = "response" THEN BufferedPass(ans)
    ELSE Pass("failed", current_rrdid, << >>)

\* A pass of the loop begins: params with the cursor, then _request takes
\* a slot and sends its first attempt.
PagedRequest ==
    /\ phase = "ready"
    /\ pc[1] \in {"idle", "done"}
    /\ Len(page_requests) < MaxPageRequests
    /\ ~Locked(sem_value, sem_waiters)
    /\ phase' = "fetching"
    /\ page' = NoPage
    /\ page_requests' = Log(page_requests, RequestCursor)
    /\ last_rrdid' = 0
    /\ row_count' = 0
    /\ transport_log' = Append(transport_log,
            Sent(Len(page_requests) + 1, RequestCursor, FirstAttempt))
    /\ sem_value' = sem_value - 1
    /\ pc' = [pc EXCEPT ![1] = "sending"]
    /\ attempt' = [attempt EXCEPT ![1] = FirstAttempt]
    /\ requests' = [requests EXCEPT ![1] = 1]
    /\ observed' = [observed EXCEPT ![1] = 0]
    /\ last' = [last EXCEPT ![1] = NoResponse]
    /\ result' = [result EXCEPT ![1] = NoResult]
    /\ UNCHANGED << package, mode, fetch_all, rrdid, transform, logged,
                    current_rrdid, received, delivered >>
    /\ UNCHANGED << config, sem_waiters, kind, emitted, indices >>
    /\ UNCHANGED << backoff, pinger >>

\* The transport answers the attempt in flight: _request backs off, or it
\* is over and the pass of the loop runs to its end.
PagedRespond ==
    /\ phase = "fetching"
    /\ pc[1] = "sending"
    /\ \E resp \in OneOfEach, obsRaises \in BOOLEAN :
        LET step == OnAttempt(attempt[1], resp, obsRaises) IN
        /\ last' = [last EXCEPT ![1] = resp]
        /\ indices' = IF step.observer
                      THEN [indices EXCEPT ![1] = Append(@, RetryIndex(attempt[1]))]
                      ELSE indices
        /\ observed' = [observed EXCEPT ![1] = @ + (IF step.observer THEN 1 ELSE 0)]
        /\ IF step.next = "sleep"
           THEN LET r == Suspend(sem_value, sem_waiters,
                                 [pc EXCEPT ![1] = "sleeping"])
                IN /\ sem_value' = r.value
                   /\ pc' = r.pc
                   /\ UNCHANGED << result, phase, page, received,
                                   current_rrdid, delivered >>
           ELSE /\ sem_value' = Release(sem_value, sem_waiters, pc).value
                /\ pc' = [pc EXCEPT ![1] = "done"]
                /\ result' = [result EXCEPT ![1] = step.result]
                /\ \E ans \in PagesOf(step.result, resp) :
                    LET pass == PassAfter(step.result, ans) IN
                    /\ page' = ans
                    /\ received' = Log(received, ans.rows)
                    /\ phase' = pass.phase
                    /\ current_rrdid' = pass.current_rrdid
                    /\ delivered' = Returned(pass)
    /\ UNCHANGED << package, mode, fetch_all, rrdid, transform, logged,
                    last_rrdid, row_count, page_requests, transport_log >>
    /\ UNCHANGED << config, sem_waiters, kind, attempt, requests, emitted >>
    /\ UNCHANGED << backoff, pinger >>

\* asyncio.sleep(delay) returns: the next attempt sends the same request.
PagedSleepDone ==
    /\ phase = "fetching"
    /\ pc[1] = "sleeping"
    /\ pc' = [pc EXCEPT ![1] = "sending"]
    /\ attempt' = [attempt EXCEPT ![1] = @ + 1]
    /\ requests' = [requests EXCEPT ![1] = @ + 1]
    /\ last' = [last EXCEPT ![1] = NoResponse]
    /\ transport_log' = Append(transport_log,
            Sent(Len(page_requests), Params, attempt[1] + 1))
    /\ UNCHANGED << package, mode, fetch_all, rrdid, transform, logged, phase,
                    current_rrdid, last_rrdid, row_count, page, page_requests,
                    received, delivered >>
    /\ UNCHANGED << config, sem_value, sem_waiters, kind, observed, emitted,
                    result, indices >>
    /\ UNCHANGED << backoff, pinger >>

\* A client on which one fetch_all run is made and nothing else.
PagedInit ==
    /\ InitWith({1})
    /\ max_concurrent = 1
    /\ retry_on_statuses = DefaultRetryStatuses
    /\ BackoffIdle
    /\ PingerIdle
    /\ package \in {"statistic", "statistics"}
    /\ mode = "buffered"
    /\ fetch_all = TRUE
    /\ rrdid = 0
    /\ transform = "none"
    /\ logged = TRUE
    /\ phase = "ready"
    /\ current_rrdid = 0
    /\ last_rrdid = 0
    /\ row_count = 0
    /\ page = NoPage
    /\ page_requests = << >>
    /\ transport_log = << >>
    /\ received = << >>
    /\ delivered = << >>

PagedNext ==
    \/ PagedRequest
    \/ PagedRespond
    \/ PagedSleepDone

PagedSpec == PagedInit /\ [][PagedNext]_vars

\* ------------------------------------------- calculate_delay on its own
\* A RetryConfig whose calculate_delay is called for attempt 0, 1, 2, ...,
\* one attempt past the largest max_retries.
DelayInit ==
    /\ ClientIdle
    /\ PagerIdle
    /\ PingerIdle
    /\ base_delay \in 0..MaxBaseDelay
    /\ max_delay \in 0..MaxMaxDelay
    /\ exponential_base \in 1..MaxExponentialBase
    /\ jitter \in BOOLEAN
    /\ delays = << >>

CalculateDelay ==
    /\ Len(delays) <= MaxRetriesBound + 1
    /\ \E draw \in Draws :
        delays' = Append(delays, calculate_delay(Len(delays), draw))
    /\ UNCHANGED << base_delay, max_delay, exponential_base, jitter >>
    /\ UNCHANGED << max_concurrent, max_retries, retry_on_statuses, on_retry,
                    sem_value, sem_waiters, kind, pc, attempt, requests, observed,
                    emitted, last, result, traced, indices, pager, pinger >>

DelayNext == CalculateDelay

DelaySpec == DelayInit /\ [][DelayNext]_vars

\* ------------------------------------------------- PingCache and ping()
\* Everything but the cache, the clock and the pings.
rest == << client, backoff, pager >>

pings == << ping_pc, ping_key, ping_result, ping_sent, ping_started,
            ping_seen, ping_stored, ping_prior >>

\* The age test of get as it would be if an entry of age ttl still counted.
Fresh_Inclusive(timestamp) == now - timestamp <= ttl

\* PingCache.get: time.monotonic() - timestamp < self._ttl.
Fresh(timestamp) == now - timestamp < ttl

\* PingCache.get(k): the value returned and the cache it leaves: a stale
\* entry is deleted.
PingCacheGet(k) ==
    IF cache[k].present
    THEN IF Fresh(cache[k].timestamp)
         THEN [value |-> cache[k].value, cache |-> cache]
         ELSE [value |-> None, cache |-> [cache EXCEPT ![k] = NoEntry]]
    ELSE [value |-> None, cache |-> cache]

\* PingCache.set(k, v) on the entries c.
PingCacheSet(c, k, v) == [c EXCEPT ![k] = Entry(v, now)]

\* What a get(k) is recorded as: its return value next to the latest set
\* for k and its age.
Lookup(k) ==
    [called |-> TRUE, returned |-> PingCacheGet(k).value, entry |-> latest[k],
     age |-> IF latest[k].present THEN now - latest[k].timestamp ELSE 0]

\* The clock advances.
Tick ==
    /\ now < MaxClock
    /\ now' = now + 1
    /\ UNCHANGED << ttl, cache, latest, got, pings, rest >>

CacheSet(k, v) ==
    /\ cache' = PingCacheSet(cache, k, v)
    /\ latest' = PingCacheSet(latest, k, v)
    /\ UNCHANGED << now, ttl, got, pings, rest >>

CacheGet(k) ==
    /\ cache' = PingCacheGet(k).cache
    /\ got' = Lookup(k)
    /\ UNCHANGED << now, ttl, latest, pings, rest >>

CacheClear ==
    /\ cache' = EmptyCache
    /\ latest' = EmptyCache
    /\ UNCHANGED << now, ttl, got, pings, rest >>

CacheInit ==
    /\ ClientIdle
    /\ BackoffIdle
    /\ PagerIdle
    /\ CacheEmpty
    /\ ttl \in 1..MaxTtl
    /\ PingsIdle

CacheNext ==
    \/ Tick
    \/ \E k \in Keys, v \in JsonValues : CacheSet(k, v)
    \/ \E k \in Keys : CacheGet(k)
    \/ CacheClear

CacheSpec == CacheInit /\ [][CacheNext]_vars

\* ping(): `if cached is not None`, as it would be if nothing counted as
\* cached.
IsCached_Never(value) == FALSE

\* ping(): `if cached is not None`.
IsCached(value) == value # None

\* What the _request call of a ping ends in: a response whose body decodes
\* to a JSON value, or an exception.
PingAnswers ==
    { [ok |-> TRUE, body |-> v] : v \in JsonValues }
    \cup { [ok |-> FALSE, body |-> None] }

\* OnPingFailure as it would be if a failed ping were cached as "no result".
OnPingFailure_CachesFailure(c, k) == PingCacheSet(c, k, None)

\* ping(): _request raises, so the lines after it do not run: the entries
\* c stay as they are.
OnPingFailure(c, k) == c

\* The state of the calls of the client other than the free slots: ping()
\* is followed through _request only as far as its slot goes.
gateless == << max_concurrent, max_retries, retry_on_statuses, on_retry,
               sem_waiters, kind, pc, attempt, requests, observed, emitted,
               last, result, traced, indices >>

\* ping(endpoint) is called: the cache is asked; a cached result is
\* returned at once, otherwise _request is entered, takes a slot and the
\* request goes out.
PingStart(p, k) ==
    /\ ping_pc[p] = "idle"
    /\ ping_key' = [ping_key EXCEPT ![p] = k]
    /\ cache' = PingCacheGet(k).cache
    /\ got' = Lookup(k)
    /\ ping_started' = [ping_started EXCEPT ![p] = now]
    /\ ping_seen' = [ping_seen EXCEPT ![p] = latest[k]]
    /\ ping_prior' = [ping_prior EXCEPT ![p] =
                        {r \in Pings : ping_pc[r] \in {"done", "failed"}}]
    /\ IF IsCached(PingCacheGet(k).value)
       THEN /\ ping_pc' = [ping_pc EXCEPT ![p] = "done"]
            /\ ping_result' = [ping_result EXCEPT ![p] = PingCacheGet(k).value]
            /\ UNCHANGED << ping_sent, sem_value >>
       ELSE /\ ping_pc' = [ping_pc EXCEPT ![p] = "requesting"]
            /\ ping_sent' = [ping_sent EXCEPT ![p] = @ + 1]
            /\ sem_value' = sem_value - 1
            /\ UNCHANGED ping_result
    /\ UNCHANGED << now, ttl, latest, ping_stored, gateless, backoff, pager >>

\* The _request call of a ping returns or raises, giving its slot back: a
\* result is stored under the ping's key with the current time and
\* returned; an exception leaves the cache as it is.
PingResponse(p) ==
    /\ ping_pc[p] = "requesting"
    /\ sem_value' = Release(sem_value, sem_waiters, pc).value
    /\ \E ans \in PingAnswers :
        IF ans.ok
        THEN /\ cache' = PingCacheSet(cache, ping_key[p], ans.body)
             /\ latest' = PingCacheSet(latest, ping_key[p], ans.body)
             /\ ping_result' = [ping_result EXCEPT ![p] = ans.body]
             /\ ping_stored' = [ping_stored EXCEPT ![p] = Some(now)]
             /\ ping_pc' = [ping_pc EXCEPT ![p] = "done"]
        ELSE /\ ping_pc' = [ping_pc EXCEPT ![p] = "failed"]
             /\ cache' = OnPingFailure(cache, ping_key[p])
             /\ UNCHANGED << latest, ping_result, ping_stored >>
    /\ UNCHANGED << now, ttl, got, ping_key, ping_sent, ping_started, ping_seen,
                    ping_prior, gateless, backoff, pager >>

\* A client with a slot for every ping, so that no ping waits for one.
PingInit ==
    /\ InitWith({})
    /\ max_concurrent = MaxSlots
    /\ max_retries = 0
    /\ retry_on_statuses = DefaultRetryStatuses
    /\ ~on_retry
    /\ BackoffIdle
    /\ PagerIdle
    /\ CacheEmpty
    /\ ttl \in 1..MaxTtl
    /\ PingsIdle

PingNext ==
    \/ Tick
    \/ \E p \in Pings, k \in Keys : PingStart(p, k)
    \/ \E p \in Pings : PingResponse(p)

PingSpec == PingInit /\ [][PingNext]_vars

\* =============================================================== claims
\* C1: whatever the interleaving of _request, stream_get and stream_post
\* calls on one client, the calls that own a concurrency slot (request in
\* flight, reading a stream, suspended at a yield, sleeping in backoff) are
\* never more than max_concurrent.
C1_InFlightBounded == Cardinality(Holders) <= max_concurrent

\* C1 witness: every slot is owned, one of the owners sleeps in backoff or
\* sits in a stream, and a further call is waiting for a slot.
C1_GateFull ==
    /\ Cardinality(Holders) = max_concurrent
    /\ \E c \in Holders : pc[c] \in {"sleeping", "yielded"}
    /\ \E c \in Calls : pc[c] = "waiting"

\* C2: the responses held open by the synchronous report stream count
\* against the limit too: open synchronous streams plus slot owners never
\* exceed max_concurrent.
C2_SyncStreamsCounted ==
    Cardinality(SyncOpen) + Cardinality(Holders) <= max_concurrent

\* ------------------------------------------- one call of _request, traced
IsSuccess(resp) == resp.type = "status" /\ 200 <= resp.status /\ resp.status < 300

\* The traced call is a _request call that has received resp as the answer
\* to its latest transport request.
Answered(c) == kind[c] = "request" /\ last[c] # NoResponse

\* The exceptions _raise_for_status can leave with.
ClassifiedKinds == {"WBAuthError", "WBRateLimitError", "WBAPIError", "ValueError"}

\* The latest answer is a status the executor retries on.
RetriedStatus(c) ==
    /\ last[c].type = "status"
    /\ last[c].status \in retry_on_statuses
    /\ last[c].status # 401

\* on_retry was invoked once for each earlier attempt and not for this one.
ObservedEarlierOnly(c) == observed[c] = IF on_retry THEN attempt[c] ELSE 0

\* C3: one call of _request issues at most max_retries + 1 transport
\* requests, one per attempt; it does not give up on a retryable status
\* while attempts remain; the first attempt answered 2xx ends the call with
\* that response, and no request is issued once the call has ended.
C3_State ==
    \A c \in traced : kind[c] = "request" =>
        /\ requests[c] <= max_retries + 1
        /\ Answered(c) => requests[c] = attempt[c] + 1
        /\ Answered(c) /\ IsSuccess(last[c]) =>
            pc[c] = "done" /\ result[c] = ResponseOf(last[c])
        /\ Answered(c) /\ RetriedStatus(c) /\ result[c].kind \in ClassifiedKinds =>
            attempt[c] = max_retries

C3_Step ==
    \A c \in traced : pc[c] = "done" => requests'[c] = requests[c] /\ pc'[c] = "done"

C3_RetryThenSuccess == []C3_State /\ [][C3_Step]_vars

\* C3 witness: max_retries = 2, two retryable failures, then 200: three
\* requests and the response returned.
C3_ThirdAttemptSucceeds ==
    /\ max_retries = 2
    /\ kind[1] = "request"
    /\ requests[1] = 3
    /\ last[1].status = 200
    /\ result[1].kind = "response"

\* C4: when the attempts of a call are all answered with a retryable
\* status, max_retries + 1 requests are issued and the call raises the error
\* classified from the last response: WBRateLimitError for 429, with
\* retry_after the Retry-After header in seconds (None without the header),
\* WBAPIError with the status code for 5xx.
Exhausted(c) ==
    /\ Answered(c)
    /\ pc[c] = "done"
    /\ RetriedStatus(c)
    /\ result[c].kind \notin {"CancelledError", "ObserverError"}

TypedFromLast(c) ==
    IF last[c].status = 429
    THEN /\ result[c].kind = "WBRateLimitError"
         /\ result[c].status_code = Some(429)
         /\ IsNumeric(last[c].retry_after) =>
                result[c].retry_after = Some(FloatOf(last[c].retry_after))
         /\ last[c].retry_after = NoHeader => result[c].retry_after = None
    ELSE result[c] = [kind |-> "WBAPIError", status_code |-> Some(last[c].status),
                      retry_after |-> None]

C4_ExhaustedRaisesTyped ==
    \A c \in traced : Exhausted(c) =>
        requests[c] = max_retries + 1 /\ TypedFromLast(c)

\* C4, for the Retry-After headers float() accepts (absent, empty, seconds).
C4_ExhaustedRaisesTypedIfParsed ==
    \A c \in traced :
        Exhausted(c) /\ (IsFalsy(last[c].retry_after) \/ IsNumeric(last[c].retry_after))
            => requests[c] = max_retries + 1 /\ TypedFromLast(c)

\* C5: a 401 answer, at the first attempt or after retries, ends _request at
\* once with WBAuthError, also when 401 is listed in retry_on_statuses: no
\* request follows and on_retry is not invoked for it.
C5_State ==
    \A c \in traced : Answered(c) /\ last[c].type = "status" /\ last[c].status = 401 =>
        /\ pc[c] = "done"
        /\ result[c] = [kind |-> "WBAuthError", status_code |-> Some(401),
                        retry_after |-> None]
        /\ requests[c] = attempt[c] + 1
        /\ ObservedEarlierOnly(c)

C5_Step ==
    \A c \in traced : Answered(c) /\ last[c].status = 401 =>
        requests'[c] = requests[c] /\ observed'[c] = observed[c]

C5_UnauthorizedEndsAtOnce == []C5_State /\ [][C5_Step]_vars

\* C5 witness: 401 is listed in retry_on_statuses and arrives after an
\* observed retry while attempts remain; the call is over with WBAuthError.
C5_UnauthorizedAfterRetry ==
    /\ 401 \in retry_on_statuses
    /\ on_retry
    /\ kind[1] = "request"
    /\ last[1].status = 401
    /\ attempt[1] = 1
    /\ max_retries = 2
    /\ result[1].kind = "WBAuthError"

\* C6: a 403 answer is an Auth error, as 401 is: _request and the streams
\* end with WBAuthError.
C6_ForbiddenIsAuth ==
    \A c \in traced :
        kind[c] \in AsyncKinds /\ last[c].type = "status" /\ last[c].status = 403 =>
            result[c].kind = "WBAuthError"

\* C7: an answer whose status is not 2xx, not 401 and not in
\* retry_on_statuses ends _request at once with WBAPIError carrying the
\* status: no further request, no backoff sleep, no on_retry for it.
FailsAtOnce(c) ==
    /\ Answered(c)
    /\ last[c].type = "status"
    /\ ~IsSuccess(last[c])
    /\ last[c].status # 401
    /\ last[c].status \notin retry_on_statuses

C7_State ==
    \A c \in traced : FailsAtOnce(c) =>
        /\ pc[c] = "done"
        /\ result[c] = [kind |-> "WBAPIError", status_code |-> Some(last[c].status),
                        retry_after |-> None]
        /\ requests[c] = attempt[c] + 1
        /\ ObservedEarlierOnly(c)

C7_Step ==
    \A c \in traced : FailsAtOnce(c) =>
        requests'[c] = requests[c] /\ observed'[c] = observed[c]

C7_ClientErrorEndsAtOnce == []C7_State /\ [][C7_Step]_vars

\* C7 witness: the first answer is 400; one request, no observer call.
C7_BadRequestFirst ==
    /\ kind[1] = "request"
    /\ last[1].status = 400
    /\ requests[1] = 1
    /\ on_retry
    /\ observed[1] = 0
    /\ max_retries = 2
    /\ result[1].kind = "WBAPIError"

\* C8: timeouts and network errors share the attempt counter with retryable
\* statuses: at most max_retries + 1 requests whatever the mix; such a
\* failure is retried while attempts remain, and at the last attempt it
\* ends the call with WBAPIError without a status code, not with the
\* transport's own exception.
CaughtFailure(c) == Answered(c) /\ last[c].type \in {"timeout", "network"}

C8_TransportFailuresRetried ==
    \A c \in traced : kind[c] = "request" =>
        /\ requests[c] <= max_retries + 1
        /\ CaughtFailure(c) => requests[c] = attempt[c] + 1
        /\ CaughtFailure(c) => result[c].kind # "TransportError"
        /\ CaughtFailure(c) /\ pc[c] = "done"
              /\ result[c].kind \notin {"CancelledError", "ObserverError"} =>
            /\ attempt[c] = max_retries
            /\ result[c] = NetworkError
        /\ CaughtFailure(c) /\ attempt[c] = max_retries =>
            pc[c] = "done" /\ result[c] = NetworkError

\* C8 witness: max_retries = 2, the third attempt times out after two
\* observed retries: Network error, no status code.
C8_LastAttemptTimesOut ==
    /\ max_retries = 2
    /\ kind[1] = "request"
    /\ last[1].type = "timeout"
    /\ requests[1] = 3
    /\ on_retry
    /\ observed[1] = 2
    /\ result[1] = NetworkError

\* ----------------------------------------------- the gate, several calls
\* Slots that are free, owned, or handed to a waiter that has not run yet.
SlotsInUse == Cardinality(Holders) + Cardinality(Granted)

\* C9: every _request call that took a slot gives exactly that slot back on
\* each way out (return, typed error, an exception of on_retry,
\* cancellation while awaiting the transport or sleeping); a call cancelled
\* while waiting takes none; once all calls are over every slot is free.
C9_State ==
    /\ sem_value >= 0
    /\ sem_value + SlotsInUse = max_concurrent
    /\ (\A c \in Calls : pc[c] \in {"idle", "done"}) => sem_value = max_concurrent

C9_Step ==
    \A c \in Calls :
        /\ kind[c] = "request" /\ pc[c] \in {"sending", "sleeping"} /\ pc'[c] = "done" =>
            /\ c \notin Holders'
            /\ sem_value' + Cardinality(Granted') = sem_value + Cardinality(Granted) + 1
        /\ pc[c] = "waiting" /\ pc'[c] = "done" =>
            sem_value' = sem_value /\ Holders' = Holders /\ Granted' = Granted

C9_SlotReleasedOnEveryExit == []C9_State /\ [][C9_Step]_vars

\* C9 witness: one _request call ended by an exception of on_retry, the
\* other by cancellation; both are over and every slot is free again.
C9_AllOverAllFree ==
    /\ kind[1] = "request" /\ result[1].kind = "ObserverError"
    /\ kind[2] = "request" /\ result[2].kind = "CancelledError"
    /\ \A c \in Calls : pc[c] = "done"
    /\ sem_value = max_concurrent

\* C10: the slot taken by stream_get / stream_post comes back on each way the
\* stream ends (204, an error status, the end of the rows, a decode or
\* transport failure, an exception of transform, the generator closed after
\* the consumer stopped), and a stream whose consumer has stopped does not
\* keep its slot for ever.
C10_Step ==
    \A c \in Calls :
        kind[c] \in StreamKinds /\ pc[c] \in HoldingStates /\ pc'[c] = "done" =>
            /\ c \notin Holders'
            /\ sem_value' + SlotsInUse' = max_concurrent
            /\ sem_value' + Cardinality(Granted') = sem_value + Cardinality(Granted) + 1

C10_Live == \A c \in Calls : (pc[c] = "abandoned") ~> (pc[c] = "done")

C11_State ==
    \A c \in traced : kind[c] = "request" =>
        /\ Len(indices[c]) = observed[c]
        /\ \A i \in 1..Len(indices[c]) : indices[c][i] = i - 1
        /\ Len(indices[c]) <= max_retries
        /\ ~on_retry => indices[c] = << >>
        /\ on_retry /\ pc[c] = "sending" => Len(indices[c]) = requests[c] - 1
        /\ on_retry /\ pc[c] = "sleeping" => Len(indices[c]) = requests[c]
        /\ on_retry /\ pc[c] = "done"
              /\ result[c].kind \notin {"CancelledError", "ObserverError"} =>
            Len(indices[c]) = requests[c] - 1

C11_Step ==
    \A c \in traced :
        /\ indices'[c] # indices[c] =>
            /\ on_retry
            /\ pc[c] = "sending" /\ pc'[c] \in {"sleeping", "done"}
            /\ pc'[c] = "done" => result'[c].kind = "ObserverError"
            /\ attempt[c] < max_retries
            /\ requests'[c] = requests[c]
            /\ indices'[c] = Append(indices[c], attempt[c])
            /\ last'[c].type \in {"timeout", "network"}
                  \/ last'[c].status \in retry_on_statuses
        /\ requests'[c] # requests[c] => indices'[c] = indices[c]

C11_ObserverOncePerRetry == []C11_State /\ [][C11_Step]_vars

\* C11 witness: max_retries = 2 and three failed attempts: the observer saw
\* attempts 0 and 1 and not the last one.
C11_TwoRetriesObserved ==
    /\ on_retry
    /\ max_retries = 2
    /\ kind[1] = "request"
    /\ indices[1] = << 0, 1 >>
    /\ requests[1] = 3
    /\ attempt[1] = 2
    /\ result[1].kind = "WBAPIError"

\* ------------------------------------------------------- calculate_delay
\* C12: for base_delay >= 0 and exponential_base >= 1, with or without
\* jitter, calculate_delay(a) is at most max_delay and at most
\* calculate_delay(a + 1), for every attempt a in 0..max_retries.
C12_DelayCappedAndMonotone ==
    \A i \in 1..Len(delays) :
        /\ delays[i] <= max_delay * TicksPerSecond
        /\ i < Len(delays) => delays[i] <= delays[i + 1]

\* C12, for a configuration without jitter.
C12_CappedAndMonotoneWithoutJitter == ~jitter => C12_DelayCappedAndMonotone

\* C13: without jitter calculate_delay(attempt) is
\* min(base_delay * exponential_base^attempt, max_delay), whatever
\* random.random() would give; with jitter it lies in [0.5 d, 1.5 d) for that
\* capped value d (and is 0 when d is 0).
C13_DelayFormula ==
    \A i \in 1..Len(delays) :
        LET d == Min(base_delay * Pow(exponential_base, i - 1), max_delay) IN
        /\ ~jitter => delays[i] = d * TicksPerSecond
        /\ jitter =>
            /\ 2 * delays[i] >= d * TicksPerSecond
            /\ d > 0 => 2 * delays[i] < 3 * d * TicksPerSecond
            /\ d = 0 => delays[i] = 0

\* C13 witness: with jitter, the delay of attempt 2 is capped at max_delay
\* and then drawn above it.
C13_JitteredAtCap ==
    /\ jitter
    /\ base_delay = 1 /\ exponential_base = 2 /\ max_delay = 3
    /\ Len(delays) = 3
    /\ delays[3] > max_delay * TicksPerSecond

\* ------------------------------------------------------------ pagination
\* The rrd_id of the last row of the i-th page received; 0 before any page.
LastRrd(i) == IF i = 0 THEN 0 ELSE RrdId(Last(received[i]))

\* The rows the service sent so far, as the caller is to get them.
Expected == Map(transform, Flatten(received))

\* The latest page has rows and its last row carries the cursor the page
\* was requested with.
Stalled ==
    /\ page.status = 200
    /\ page.intact
    /\ page.rows # << >>
    /\ RrdId(Last(page.rows)) = Last(page_requests)

\* C14: buffered fetch_all over n non-empty pages whose last rrd_id strictly
\* advances, then an empty page: n + 1 requests, the first with rrdid 0 and
\* each later one with the rrd_id of the last row of the page before, and
\* the n pages returned concatenated in order.
C14_FetchAllConcatenates ==
    /\ logged /\ mode = "buffered" /\ fetch_all /\ transform # "strip"
    /\ phase = "done"
    /\ page.status = 200 /\ page.is_list /\ page.rows = << >>
    /\ \A i \in 1..(Len(received) - 1) :
            received[i] # << >> /\ LastRrd(i) > LastRrd(i - 1)
    =>
    /\ Len(page_requests) = Len(received)
    /\ page_requests[1] = 0
    /\ \A i \in 2..Len(page_requests) : page_requests[i] = LastRrd(i - 1)
    /\ delivered = Expected
    /\ Len(delivered) = Len(Flatten(received))

\* C14 witness: pages [r, r1], [r2], [] give three rows through three
\* requests with cursors 0, 1, 2.
C14_ThreePages ==
    /\ mode = "buffered" /\ fetch_all /\ transform = "none"
    /\ phase = "done"
    /\ Len(received) = 3
    /\ Len(received[1]) = 2 /\ LastRrd(1) = 1
    /\ Len(received[2]) = 1 /\ LastRrd(2) = 2
    /\ received[3] = << >> /\ page.status = 200 /\ page.is_list
    /\ page_requests = << 0, 1, 2 >>
    /\ delivered = received[1] \o received[2]

\* C15: statistic package, fetch_all, buffered and stream: when the last row
\* of a non-empty page carries the cursor the page was requested with, the
\* rows of that page are delivered once and no further page is requested.
C15_State ==
    package = "statistic" /\ fetch_all /\ logged /\ Stalled /\ phase # "reading" =>
        /\ phase = "done"
        /\ delivered = Expected

C15_Step == phase = "done" => phase' = "done" /\ page_requests' = page_requests

C15_StatisticStallGuard == []C15_State /\ [][C15_Step]_vars

\* C15 witness: the stream of the statistic package stops on its second
\* page, whose last row repeats the cursor 1, with all rows yielded.
C15_StreamStalledOnSecondPage ==
    /\ package = "statistic" /\ mode = "stream" /\ fetch_all
    /\ page_requests = << 0, 1 >>
    /\ Stalled
    /\ phase = "done"
    /\ Len(delivered) = 3

\* C16: statistics package, fetch_all, buffered and stream: when the last
\* row of a non-empty page carries the cursor the page was requested with,
\* pagination stops after that page.
C16_StatisticsStallGuard ==
    package = "statistics" /\ fetch_all /\ logged /\ Stalled /\ phase # "reading" =>
        phase = "done"

\* C17: whatever successful pages the service sends (a cursor that stands
\* still, one that comes back to an earlier value, rows without rrd_id), a
\* fetch_all run comes to an end.
C17_PaginationTerminates == (~logged) ~> (phase \in {"done", "failed"})

\* C17, second part: no row of a page is delivered twice: what is delivered
\* never outgrows what was received.
C17_NoRowTwice ==
    logged => Len(delivered) <= Len(Flatten(received))

\* C18: when a run is over, the rows delivered are the pages received, in
\* request order, each row through transform: nothing dropped, reordered or
\* deduplicated, the last non-empty page included; a stream has delivered a
\* prefix of them at any time.
C18_DeliveredIsReceived ==
    logged =>
        /\ phase = "done" => delivered = Expected
        /\ mode = "stream" =>
            /\ Len(delivered) <= Len(Expected)
            /\ delivered = SubSeq(Expected, 1, Len(delivered))

\* C18 witness: a buffered run ended by the stall check on its second page;
\* the rows of both pages are returned, transformed.
C18_LastPageKept ==
    /\ package = "statistic" /\ mode = "buffered" /\ fetch_all /\ transform = "tag"
    /\ phase = "done"
    /\ Len(received) = 2 /\ Len(received[1]) = 2 /\ Len(received[2]) = 1
    /\ Len(delivered) = 3

\* C19: without fetch_all one page request is issued, whatever the page
\* holds; in buffered mode it carries the caller's rrdid; the rows of that
\* page are the whole result.
C19_SinglePage ==
    logged /\ ~fetch_all =>
        /\ Len(page_requests) <= 1
        /\ mode = "buffered" /\ page_requests # << >> => page_requests[1] = rrdid
        /\ phase # "ready" => Len(page_requests) = 1
        /\ phase = "done" =>
            /\ Len(received) = 1
            /\ delivered = Map(transform, received[1])

\* C19 witness: rrdid = 1, one page whose last row has rrd_id 2: one
\* request with rrdid 1 and the run is over.
C19_OnePageCursorMoved ==
    /\ mode = "buffered" /\ ~fetch_all /\ rrdid = 1
    /\ page_requests = << 1 >>
    /\ page.rows # << >> /\ RrdId(Last(page.rows)) = 2
    /\ phase = "done"
    /\ delivered = page.rows

\* C20: a 204 is an empty result, not an error: the run ends normally; as a
\* later page of a fetch_all run it adds nothing and the rows of the earlier
\* pages are kept.
C20_NoContentIsEmpty ==
    logged /\ page.status = 204 =>
        /\ phase = "done"
        /\ Last(received) = << >>
        /\ delivered = Expected

\* C20 witness: a buffered fetch_all run whose second page is a 204: over,
\* with the rows of the first page.
C20_NoContentAfterRows ==
    /\ mode = "buffered" /\ fetch_all
    /\ page.status = 204
    /\ Len(received) = 2
    /\ phase = "done"
    /\ delivered = received[1] /\ delivered # << >>

\* ------------------------------------------- pagination, mode by mode
\* The cursor a package takes from a page: the rrd_id of its last row, read
\* before transform (statistic) or after it (statistics).
NextCursor(rows) ==
    IF package = "statistic" THEN RrdId(Last(rows))
    ELSE RrdId(Apply(transform, Last(rows)))

\* The cursor of the i-th page request of a fetch_all run.
RefCursor(i) == IF i = 1 THEN 0 ELSE NextCursor(received[i - 1])

\* Whether a run goes on after its k-th page.
Continues(k) ==
    /\ fetch_all
    /\ received[k] # << >>
    /\ package = "statistic" => NextCursor(received[k]) # RefCursor(k)

\* C21: buffered and stream mode of one package do the same with the same
\* pages (same fetch_all, same transform, rrdid at its default 0): the
\* cursors requested, the page after which the run ends and the rows
\* delivered are given by the pages alone, whatever the mode.
C21_ModesAgree ==
    logged /\ rrdid = 0 /\ phase # "failed" =>
        /\ \A i \in 1..Len(page_requests) : page_requests[i] = RefCursor(i)
        /\ phase = "done" =>
            /\ ~Continues(Len(received))
            /\ Len(page_requests) = Len(received)
            /\ delivered = Expected
        /\ phase \in {"ready", "fetching"} /\ received # << >> =>
            Continues(Len(received))

\* C21 witness: the stream of the statistics package over pages of two rows,
\* one row and none: cursors 0, 1, 2 and three rows, as in buffered mode.
C21_StreamThreePages ==
    /\ package = "statistics" /\ mode = "stream" /\ fetch_all /\ transform = "tag"
    /\ phase = "done"
    /\ page_requests = << 0, 1, 2 >>
    /\ Len(received) = 3 /\ Len(received[1]) = 2 /\ Len(received[2]) = 1
    /\ Len(delivered) = 3

\* C27: a stream that fails after k rows (an error status on a later page,
\* a decode or transport failure in a body) has delivered those k rows in
\* order; the consumer then gets the error, not the end of the stream, and
\* no row after it.
C27_State ==
    logged /\ mode = "stream" =>
        /\ page.status >= 400 => phase = "failed"
        /\ ~page.intact /\ phase # "reading" => phase = "failed"
        /\ phase = "failed" => delivered = Expected

C27_Step ==
    mode = "stream" =>
        /\ phase = "failed" => phase' = "failed" /\ delivered' = delivered
        /\ phase' = "failed" /\ phase # "failed" => delivered' = delivered

C27_RowsBeforeFailureStay == []C27_State /\ [][C27_Step]_vars

\* C27 witness: a stream whose second page breaks after one row: three rows
\* delivered, then the failure.
C27_BrokenSecondPage ==
    /\ mode = "stream" /\ fetch_all
    /\ Len(received) = 2 /\ Len(received[1]) = 2 /\ Len(received[2]) = 1
    /\ ~page.intact
    /\ phase = "failed"
    /\ Len(delivered) = 3

\* C29: the page requests of one run are sequential: at most one is
\* unanswered; the next one is issued when the page before has been taken
\* in whole (a stream has yielded each of its rows), with the cursor taken
\* from that page's last row.
C29_State ==
    logged =>
        /\ Len(page_requests) - Len(received) \in {0, 1}
        /\ Len(page_requests) = Len(received) + 1 <=> phase = "fetching"
        /\ fetch_all =>
            \A i \in 2..Len(page_requests) :
                received[i - 1] # << >> /\ page_requests[i] = NextCursor(received[i - 1])

C29_Step ==
    logged /\ page_requests' # page_requests =>
        /\ phase = "ready"
        /\ Len(page_requests) = Len(received)
        /\ mode = "stream" => row_count = Len(page.rows) /\ delivered = Expected

C29_PageRequestsSequential == []C29_State /\ [][C29_Step]_vars

\* C29 witness: a stream has yielded the two rows of its first page and its
\* second request is out.
C29_SecondRequestAfterRows ==
    /\ mode = "stream" /\ fetch_all
    /\ phase = "fetching"
    /\ Len(page_requests) = 2 /\ Len(received) = 1
    /\ Len(delivered) = 2

\* C30: transform is opaque to pagination: in both packages and both modes
\* the cursor of the next page request is the rrd_id of the last row of the
\* page as the service sent it, whatever transform does to the rows.
C30_CursorFromServiceRow ==
    logged /\ fetch_all =>
        \A i \in 2..Len(page_requests) : page_requests[i] = RrdId(Last(received[i - 1]))

\* C30, for the statistic package alone.
C30_StatisticCursorFromServiceRow == package = "statistic" => C30_CursorFromServiceRow

\* --------------------------------------------- streams and the policy
\* C25: a streaming call whose request is answered with a status of
\* retry_on_statuses, or fails with a timeout or network error, before any
\* row is emitted is issued again, up to max_retries times, before it ends
\* with an error: it ends after max_retries + 1 requests.
C25_StreamsRetry ==
    \A c \in traced :
        /\ kind[c] # "request"
        /\ pc[c] = "done"
        /\ emitted[c] = 0
        /\ \/ last[c].type \in {"timeout", "network"}
           \/ last[c].type = "status" /\ last[c].status \in retry_on_statuses \ {401}
        /\ result[c].kind \notin {"CancelledError", "closed"}
        => requests[c] = max_retries + 1

\* The three error types of wb_api_sdk.exceptions.
TypedErrors == {"WBAuthError", "WBRateLimitError", "WBAPIError"}

\* C26: a call that fails (an error status, a timeout or connection error,
\* a malformed body or header) ends with WBAuthError, WBRateLimitError or
\* WBAPIError, never with the exception of the transport, the decoder or a
\* value conversion.  Exceptions of the caller's own callbacks and
\* cancellation are not failures of the call.
C26_OnlyTypedErrors ==
    \A c \in traced :
        pc[c] = "done" /\ result[c].kind \in ServiceErrors \ {"TransformError"}
            => result[c].kind \in TypedErrors

\* C26, for _request answered with a status that carries no Retry-After
\* header float() rejects, or failing with a timeout or network error.
C26_RequestTypedIfParsed ==
    \A c \in traced :
        /\ kind[c] = "request"
        /\ pc[c] = "done" /\ result[c].kind \in ServiceErrors
        /\ last[c].type \in {"status", "timeout", "network"}
        /\ IsFalsy(last[c].retry_after) \/ IsNumeric(last[c].retry_after)
        => result[c].kind \in TypedErrors

\* ------------------------------------------------- the cache and ping()
\* C22: whatever set, get and clear calls and clock advances came before,
\* get(key) returns the value of the latest set for the key exactly when
\* that set was not cleared and is younger than ttl, and None otherwise: a
\* value of age ttl or more is never returned.  The cache holds nothing
\* but latest sets, and lacks one only if it is stale.
C22_GetReturnsFreshOnly ==
    /\ got.called =>
        IF got.entry.present /\ got.age < ttl
        THEN got.returned = got.entry.value
        ELSE got.returned = None
    /\ \A k \in Keys :
        /\ cache[k].present => cache[k] = latest[k]
        /\ latest[k].present /\ ~cache[k].present => now - latest[k].timestamp >= ttl

\* C22 witness: get for a key whose value was set exactly ttl ago.
C22_AgedEntryNotReturned ==
    /\ got.called
    /\ got.entry.present /\ got.entry.value # None
    /\ got.age = ttl
    /\ got.returned = None

\* The latest result stored under a ping's key was fresh when it was called.
FreshAtStart(q) ==
    ping_seen[q].present /\ ping_started[q] - ping_seen[q].timestamp < ttl

\* C23: a ping called while a result stored for its key is younger than ttl
\* makes no request and returns that result; so of two pings for one
\* endpoint, the second called after the first returned and less than ttl
\* after the first was called, only the first makes a request.  A ping
\* called when the stored result has reached age ttl (or none is stored)
\* makes a request and stores its result with the current time.  Results
\* are JSON objects: a null result is stored but never counts as cached.
C23_State ==
    \A q \in Pings : ping_pc[q] # "idle" =>
        /\ FreshAtStart(q) /\ ping_seen[q].value # None =>
            /\ ping_sent[q] = 0
            /\ ping_pc[q] = "done"
            /\ ping_result[q] = ping_seen[q].value
        /\ ~FreshAtStart(q) => ping_sent[q] = 1
        /\ ping_pc[q] = "done" /\ ping_sent[q] = 1 => ping_stored[q] # None
        /\ \A p \in ping_prior[q] :
            /\ ping_key[p] = ping_key[q]
            /\ ping_sent[p] = 1 /\ ping_result[p] # None
            /\ ping_seen[q].value # None
            /\ ping_started[q] - ping_started[p] < ttl
            => /\ ping_sent[q] = 0
               /\ \E r \in Pings :
                    /\ ping_stored[r] = Some(ping_seen[q].timestamp)
                    /\ ping_result[r] = ping_result[q]

C23_Step ==
    \A q \in Pings :
        ping_pc[q] = "requesting" /\ ping_pc'[q] = "done" =>
            cache'[ping_key[q]] = Entry(ping_result'[q], now)

C23_PingWithinTtlIsCached == []C23_State /\ [][C23_Step]_vars

\* C23 witness: the second ping follows the first within ttl and returns
\* its result without a request.
C23_SecondPingCached ==
    /\ ping_pc[1] = "done" /\ ping_sent[1] = 1 /\ ping_result[1] = Some("ok")
    /\ ping_pc[2] = "done" /\ ping_sent[2] = 0 /\ ping_result[2] = Some("ok")
    /\ ping_key[1] = ping_key[2]
    /\ 1 \in ping_prior[2]
    /\ ping_started[2] > ping_started[1]

\* C23 witness, second half: the second ping is called ttl after the first
\* stored its result, makes its own request and stores a new result.
C23_SecondPingAfterTtl ==
    /\ ping_pc[1] = "done" /\ ping_sent[1] = 1 /\ ping_result[1] = Some("ok")
    /\ ping_pc[2] = "done" /\ ping_sent[2] = 1 /\ ping_result[2] = Some("busy")
    /\ ping_key[1] = ping_key[2]
    /\ 1 \in ping_prior[2]
    /\ ping_started[2] - ping_stored[1][1] = ttl
    /\ cache[ping_key[2]] = Entry(Some("busy"), now)

\* Two pings overlap: neither had returned when the other was called.
Overlap(p, q) ==
    /\ p # q
    /\ ping_pc[p] \in {"requesting", "done"} /\ ping_pc[q] \in {"requesting", "done"}
    /\ p \notin ping_prior[q] /\ q \notin ping_prior[p]

\* C24: two pings for one cache key that overlap, called less than ttl
\* apart, make one request between them.
C24_OverlappingPingsShare ==
    \A p, q \in Pings :
        /\ Overlap(p, q)
        /\ ping_key[p] = ping_key[q]
        /\ ping_started[q] >= ping_started[p]
        /\ ping_started[q] - ping_started[p] < ttl
        => ping_sent[p] + ping_sent[q] <= 1

\* ------------------------------------------------- waiting for a slot
\* Every slot is owned or handed to a waiter.
AllSlotsTaken == Cardinality(Holders) + Cardinality(Granted) = max_concurrent

\* The place of a waiting call in the queue of waiters.
Place(c) == CHOOSE i \in 1..Len(sem_waiters) : sem_waiters[i] = c

\* C28: a call that finds every slot taken waits and is not failed; a
\* waiting call leaves the queue only with a slot or by cancellation, and
\* while every slot holder goes on to its end it does get a slot and issues
\* its request; no call that arrived later, or that is behind it in the
\* queue, is given a slot while it is kept waiting.
C28_Step ==
    \A c \in Calls :
        /\ pc[c] = "idle" /\ pc'[c] # "idle" /\ kind'[c] \in AsyncKinds /\ AllSlotsTaken =>
            pc'[c] = "waiting" /\ result'[c] = NoResult /\ requests'[c] = 0
        /\ pc[c] = "waiting" =>
            \/ pc'[c] \in {"waiting", "granted"} /\ result'[c] = NoResult
            \/ pc'[c] = "done" /\ result'[c].kind = "CancelledError"
        /\ pc[c] = "granted" =>
            \/ pc'[c] = "granted"
            \/ pc'[c] = "sending" /\ requests'[c] = 1
            \/ pc'[c] = "done" /\ result'[c].kind = "CancelledError"
        /\ \A d \in Calls \ {c} :
            /\ pc[c] = "waiting" /\ pc'[c] = "waiting"
            /\ pc[d] \in {"idle", "waiting"}
            /\ pc'[d] \in {"granted", "sending"}
            => pc[d] = "waiting" /\ Place(d) < Place(c)

C28_Live ==
    \A c \in Calls :
        (pc[c] = "waiting") ~>
            (pc[c] = "sending" \/ (pc[c] = "done" /\ result[c].kind = "CancelledError"))

C31_RateLimitAlwaysTyped ==
    \A c \in traced :
        /\ pc[c] = "done"
        /\ last[c].type = "status" /\ last[c].status = 429
        /\ result[c].kind \in ServiceErrors
        => /\ result[c].kind = "WBRateLimitError"
           /\ result[c].retry_after =
                IF IsNumeric(last[c].retry_after)
                THEN Some(FloatOf(last[c].retry_after)) ELSE None

\* C31, for the headers float() accepts: absent, empty, seconds.
C31_RateLimitTypedIfParsed ==
    \A c \in traced :
        /\ pc[c] = "done"
        /\ last[c].type = "status" /\ last[c].status = 429
        /\ result[c].kind \in ServiceErrors
        /\ IsFalsy(last[c].retry_after) \/ IsNumeric(last[c].retry_after)
        => /\ result[c].kind = "WBRateLimitError"
           /\ result[c].retry_after =
                IF IsNumeric(last[c].retry_after)
                THEN Some(FloatOf(last[c].retry_after)) ELSE None

\* C32: a streamed response with a status outside 2xx ends the stream at
\* once with the exception of the status check: no row of it is yielded
\* and its body is never read; a stream that has ended yields nothing.
\* The exception is one of the typed errors whenever the Retry-After header
\* of a 429 is absent, empty or a number.
C32_State ==
    \A c \in traced :
        /\ kind[c] # "request"
        /\ last[c].type = "status" /\ ~IsSuccess(last[c])
        => /\ pc[c] = "done"
           /\ result[c].kind \in ClassifiedKinds
           /\ IsFalsy(last[c].retry_after) \/ IsNumeric(last[c].retry_after) =>
                result[c].kind \in TypedErrors
           /\ kind[c] \in StreamKinds => emitted[c] = 0

C32_Step ==
    \A c \in traced :
        /\ kind'[c] # "request" /\ last'[c] # last[c]
              /\ last'[c].type = "status" /\ ~IsSuccess(last'[c]) =>
            emitted'[c] = emitted[c] /\ pc'[c] = "done"
        /\ pc[c] = "done" => emitted'[c] = emitted[c]

C32_SyncSecondPage500 ==
    /\ kind[1] = "sync_stream"
    /\ requests[1] = 2
    /\ last[1].type = "status" /\ last[1].status = 500
    /\ pc[1] = "done"
    /\ result[1].kind = "WBAPIError"
    /\ emitted[1] = 1

\* ------------------------------------------------- the slot of one call
\* Calls of _request sleeping in a backoff delay.
Sleepers == {c \in Calls : pc[c] = "sleeping"}

\* C33: a call of _request owns one slot from the moment it takes it to its
\* end: between attempts, asleep in the backoff delay, it still owns it and
\* the semaphore is not touched.  When max_concurrent calls are asleep in
\* backoff there is no free slot, and no other call that goes through the
\* gate issues a request until one of them has ended.
C33_State ==
    /\ sem_value + Cardinality(Holders) + Cardinality(Granted) = max_concurrent
    /\ Sleepers \subseteq Holders
    /\ Cardinality(Sleepers) = max_concurrent => sem_value = 0 /\ Granted = {}

C33_Step ==
    \A c \in Calls :
        /\ kind[c] = "request" /\ pc[c] \in {"sending", "sleeping"} =>
            /\ pc'[c] \in {"sending", "sleeping", "done"}
            /\ pc'[c] # "done" /\ pc'[c] # pc[c] =>
                sem_value' = sem_value /\ sem_waiters' = sem_waiters
        /\ /\ Cardinality(Sleepers) = max_concurrent
           /\ Sleepers' = Sleepers
           /\ c \notin Sleepers
           /\ kind'[c] \in AsyncKinds
           => pc'[c] \in {"idle", "waiting", "done"} /\ requests'[c] = requests[c]

C33_SlotHeldAcrossAttempts == []C33_State /\ [][C33_Step]_vars

\* C33 witness: the only slot belongs to a call asleep in backoff, and a
\* second call is waiting for it.
C33_SleeperKeepsOthersWaiting ==
    /\ max_concurrent = 1
    /\ kind[1] = "request" /\ pc[1] = "sleeping"
    /\ pc[2] = "waiting"
    /\ sem_value = 0
    /\ sem_waiters = << 2 >>

\* ------------------------------------------------ no deadlock on the gate
\* C34: whenever a call is waiting for a slot, the stream, its consumer or
\* the awaited call can take a step of its own, so that a slot is released
\* without another slot of the client being needed first; also when the
\* consumer of a stream awaits a request on the same client between rows.
C34_NoSelfDeadlock ==
    (\E c \in Calls : pc[c] = "waiting") => ENABLED NestedProgress

\* C34, for calls none of which awaits another: whenever one is waiting,
\* some call can take a step of its own.
C34_IndependentCallsProgress ==
    (\E c \in Calls : pc[c] = "waiting") => ENABLED (\E c \in Calls : Progress(c))

\* ------------------------------------------- buffered runs, fetch_all
\* C36: a buffered fetch_all run whose page request fails raises and hands
\* over no row, whatever the pages before it held; it returns rows only
\* when it ended with a page without rows (an empty list, a 204) or, in the
\* statistic package, with a page whose last row repeats the cursor.
C36_State ==
    logged /\ mode = "buffered" /\ fetch_all =>
        /\ page.status >= 400 => phase = "failed"
        /\ phase = "failed" => delivered = << >>
        /\ phase = "done" =>
            /\ delivered = Expected
            /\ received # << >>
            /\ Last(received) = << >> \/ (package = "statistic" /\ Stalled)

C36_Step ==
    mode = "buffered" /\ phase = "failed" => phase' = "failed" /\ delivered' = << >>

C36_BufferedAllOrNothing == []C36_State /\ [][C36_Step]_vars

\* C36 witness: the first page had two rows, the second request was
\* answered 500: the call raised and the two rows are not returned.
C36_RowsLostOnSecondPage ==
    /\ mode = "buffered" /\ fetch_all
    /\ Len(received) = 2 /\ Len(received[1]) = 2
    /\ page.status = 500
    /\ phase = "failed"
    /\ delivered = << >>

\* C37: with fetch_all the rrdid argument is not used: the first page
\* request of the buffered call carries 0 whatever rrdid was passed, and
\* every later one the cursor taken from the rows of the page before.
C37_FetchAllStartsAtZero ==
    logged /\ mode = "buffered" /\ fetch_all /\ page_requests # << >> =>
        /\ page_requests[1] = 0
        /\ \A i \in 2..Len(page_requests) :
            page_requests[i] = NextCursor(received[i - 1])

\* C37 witness: called with rrdid = 1 and fetch_all, the run asked for
\* cursor 0 and then for the rrd_id 2 of the first page's last row.
C37_ArgumentOneIgnored ==
    /\ mode = "buffered" /\ fetch_all
    /\ rrdid = 1
    /\ page_requests = << 0, 2 >>

\* ---------------------------------------------------- a ping that fails
\* Pings inside _request.
Requesting == {p \in Pings : ping_pc[p] = "requesting"}

\* C38: a ping that ends in an error stores nothing and leaves the cache as
\* it is, so a ping called after it, with no fresh result stored, makes its
\* own request.  Every entry of the cache is the result of a ping that
\* succeeded.  A ping served from the cache makes no request and takes no
\* slot; a ping that misses takes one and at most evicts an expired entry.
C38_State ==
    /\ sem_value = max_concurrent - Cardinality(Requesting)
    /\ \A p \in Pings :
        /\ ping_pc[p] = "failed" => ping_stored[p] = None /\ ping_result[p] = None
        /\ \A f \in ping_prior[p] :
            ping_pc[f] = "failed" /\ ~FreshAtStart(p) => ping_sent[p] = 1
    /\ \A k \in Keys : cache[k].present =>
        \E p \in Pings :
            /\ ping_pc[p] = "done" /\ ping_sent[p] = 1 /\ ping_key[p] = k
            /\ ping_stored[p] = Some(cache[k].timestamp)
            /\ ping_result[p] = cache[k].value

C38_Step ==
    \A p \in Pings :
        /\ ping_pc[p] = "requesting" /\ ping_pc'[p] = "failed" =>
            cache' = cache /\ latest' = latest
        /\ ping_pc[p] = "idle" /\ ping_pc'[p] = "done" =>
            /\ sem_value' = sem_value
            /\ ping_sent'[p] = 0
            /\ cache' = cache
        /\ ping_pc[p] = "idle" /\ ping_pc'[p] = "requesting" =>
            /\ sem_value' = sem_value - 1
            /\ \/ cache' = cache
               \/ /\ cache[ping_key'[p]].present
                  /\ now - cache[ping_key'[p]].timestamp >= ttl
                  /\ cache' = [cache EXCEPT ![ping_key'[p]] = NoEntry]

C38_FailedPingLeavesCache == []C38_State /\ [][C38_Step]_vars

\* C38 witness: the first ping failed; the second, called after it for the
\* same key, made its own request and its result is the one cached.
C38_PingAfterFailure ==
    /\ ping_pc[1] = "failed" /\ ping_sent[1] = 1
    /\ 1 \in ping_prior[2]
    /\ ping_key[1] = ping_key[2]
    /\ ping_pc[2] = "done" /\ ping_sent[2] = 1 /\ ping_result[2] = Some("ok")
    /\ cache[ping_key[2]] = Entry(Some("ok"), ping_stored[2][1])
    /\ sem_value = max_concurrent


\* ---------------------------------------------------------------- C35
\* C35: in a fetch_all run every page request has a retry budget of its
\* own.  The transport requests of a page carry the attempts 0, 1, 2, ...
\* starting at 0 again for every page, each with the rrdid the page was
\* first requested with; a run of n page requests therefore makes at most
\* n * (max_retries + 1) transport requests, and the on_retry observer is
\* handed attempt 0 at most once for each page.
FirstOfPage(i) ==
    i = 1 \/ transport_log[i - 1].page # transport_log[i].page

ObservedZeros == { j \in 1..Len(indices[1]) : indices[1][j] = 0 }

C35_FreshBudgetPerPage ==
    LET n == Len(page_requests)
        log == transport_log
    IN
    /\ Len(log) <= n * (max_retries + 1)
    /\ \A pg \in 1..n : \E i \in 1..Len(log) : log[i].page = pg
    /\ \A i \in 1..Len(log) :
        /\ log[i].page \in 1..n
        /\ log[i].rrdid = page_requests[log[i].page]
        /\ log[i].attempt = IF FirstOfPage(i) THEN 0 ELSE log[i - 1].attempt + 1
        /\ log[i].attempt <= max_retries
        /\ i > 1 => log[i].page \in {log[i - 1].page, log[i - 1].page + 1}
    /\ Cardinality(ObservedZeros) <= n
    /\ \A j \in 1..Len(indices[1]) : indices[1][j] < max_retries

\* Two pages, each answered on its second attempt: the observer saw
\* attempt 0 twice, and the retry of the second page carried its cursor.
C35_TwoPagesRetriedOnce ==
    /\ max_retries = 1
    /\ Len(transport_log) = 4
    /\ [i \in 1..4 |-> transport_log[i].attempt] = << 0, 1, 0, 1 >>
    /\ [i \in 1..4 |-> transport_log[i].page] = << 1, 1, 2, 2 >>
    /\ transport_log[4].rrdid # transport_log[1].rrdid
    /\ indices[1] = << 0, 0 >>
    /\ phase = "ready"

====
